---- MODULE Spec2Model ----
(***************************************************************************)
(* The SAPL tree-walking interpreter (sapl/runtime.py) as a state machine. *)
(* The host call stack of the recursive statement executors is the         *)
(* variable stack, the host exception in flight is the variable sig, and   *)
(* every Interpreter instance owns one ExecutionContext in ctx.            *)
(***************************************************************************)
EXTENDS Integers, Sequences, FiniteSets, TLC

VARIABLES
    ctx,      \* ExecutionContext (and _function_stack) of every Interpreter; 1 is the root
              \* (when a text is tokenized or parsed: the Lexer or Parser object)
    stack,    \* host call stack: the active _execute_block/_execute_statement/_call_function frames
    sig,      \* the host exception in flight (control-flow signal or error), or none
    status,   \* "running", "done" (execute returned), "failed" (execute raised)
    cmlog,    \* __enter__/__exit__ calls received by host context managers
    input     \* the program under execution and the parameters it was built from

vars == <<ctx, stack, sig, status, cmlog, input>>

(***************************************************************************)
(* Bounds of the explored inputs.                                          *)
(***************************************************************************)
MaxNest == 2
MaxInterp == 3

(***************************************************************************)
(* Host values.                                                            *)
(***************************************************************************)
NoneV == [t |-> "none"]
IntV(n) == [t |-> "int", i |-> n]
BoolV(b) == [t |-> "bool", b |-> b]
StrV(s) == [t |-> "str", s |-> s]
TupleV(xs) == [t |-> "tuple", items |-> xs]
ListV(xs) == [t |-> "list", elems |-> xs]
TypeV(c) == [t |-> "type", cls |-> c]
ExcV(c, m) == [t |-> "exc", of |-> c, msg |-> m]
CmV(id, enterFails, suppress) ==
    [t |-> "cm", id |-> id, enterFails |-> enterFails, suppress |-> suppress]
ModuleV(dotted, attrs) == [t |-> "module", dotted |-> dotted, attrs |-> attrs]

EmptyMap == [n \in {} |-> NoneV]
Put(m, k, v) == [n \in DOMAIN m \cup {k} |-> IF n = k THEN v ELSE m[n]]
Del(m, k) == [n \in DOMAIN m \ {k} |-> m[n]]
Update(m, m2) == [n \in DOMAIN m \cup DOMAIN m2 |-> IF n \in DOMAIN m2 THEN m2[n] ELSE m[n]]

SetMax(S) == CHOOSE x \in S : \A y \in S : y <= x

Ok(v) == [ok |-> TRUE, v |-> v]
Err(e) == [ok |-> FALSE, v |-> e]

\* sapl.errors.RuntimeError(message)
RuntimeErrorV(m) == ExcV("RuntimeError", m)

\* The method resolution order of the exception classes that occur.
Ancestors(c) ==
    CASE c = "RuntimeError" -> {"RuntimeError", "SAPLError", "Exception"}
      [] c = "E1" -> {"E1", "Exception"}
      [] c = "E1a" -> {"E1a", "E1", "Exception"}
      [] c = "E2" -> {"E2", "Exception"}
      [] c = "_BreakSignal" -> {"_BreakSignal", "Exception"}
      [] c = "_ContinueSignal" -> {"_ContinueSignal", "Exception"}
      [] c = "_ReturnSignal" -> {"_ReturnSignal", "Exception"}
      [] OTHER -> {c, "Exception"}

NoSig == [k |-> "none"]
BreakSignal == [k |-> "break"]
ContinueSignal == [k |-> "continue"]
ReturnSignal(v) == [k |-> "return", val |-> v]
ErrorSig(e) == [k |-> "error", exc |-> e]

\* The class of the host exception object a signal in flight is.
SigClass(s) ==
    CASE s.k = "break" -> "_BreakSignal"
      [] s.k = "continue" -> "_ContinueSignal"
      [] s.k = "return" -> "_ReturnSignal"
      [] s.k = "error" -> s.exc.of
      [] OTHER -> "none"

\* The value an EXCEPT ... AS alias binds.
SigValue(s) == IF s.k = "error" THEN s.exc ELSE ExcV(SigClass(s), <<>>)

truthy(v) ==
    CASE v.t = "none" -> FALSE
      [] v.t = "bool" -> v.b
      [] v.t = "int" -> v.i # 0
      [] v.t = "str" -> v.s # <<>>
      [] v.t = "tuple" -> v.items # <<>>
      [] v.t = "list" -> v.elems # <<>>
      [] OTHER -> TRUE

ValEq(a, b) == a.t = b.t /\ a = b

(***************************************************************************)
(* AST nodes (sapl/nodes.py).  A literal is the raw host value; the        *)
(* literal NONE is the host None, which is also what an absent optional    *)
(* field holds.                                                            *)
(***************************************************************************)
Lit(v) == [e |-> "lit", v |-> v]
PyNone == Lit(NoneV)
Identifier(name) == [e |-> "id", name |-> name]
BinaryExpression(left, operator, right) ==
    [e |-> "bin", left |-> left, operator |-> operator, right |-> right]
LambdaExpression(parameters, body) == [e |-> "lambda", parameters |-> parameters, body |-> body]
AttributeReference(value, attribute) == [e |-> "attr", value |-> value, attribute |-> attribute]
TupleExpression(elements) == [e |-> "tuple", elements |-> elements]
ListExpression(elements) == [e |-> "list", elements |-> elements]
ForStatement(iterator, iterable, body, line) ==
    [s |-> "for", iterator |-> iterator, iterable |-> iterable, body |-> body, line |-> line]
ConditionalExpression(condition, if_true, if_false) ==
    [e |-> "cond", condition |-> condition, if_true |-> if_true, if_false |-> if_false]
ListComprehension(expression, iterator, iterable, condition) ==
    [e |-> "comp", expression |-> expression, iterator |-> iterator,
     iterable |-> iterable, condition |-> condition]
CallExpression(function, args, kwargs) ==
    [e |-> "call", function |-> function, args |-> args, kwargs |-> kwargs]
AwaitExpression(expression) == [e |-> "await", expression |-> expression]
Parameter(name, default) == [name |-> name, default |-> default]

(***************************************************************************)
(* Strings are sequences of tokens: the characters str.format_map treats   *)
(* specially, digits, and words (runs of ordinary characters).             *)
(***************************************************************************)
Digits == {"0", "1", "9"}
DigitValue(d) == CASE d = "0" -> 0 [] d = "1" -> 1 [] OTHER -> 9

\* The characters of a word token.
Chars(w) ==
    CASE w = "nope" -> <<"n", "o", "p", "e">>
      [] w = "attr" -> <<"a", "t", "t", "r">>
      [] w = "target" -> <<"t", "a", "r", "g", "e", "t">>
      [] w = "None" -> <<"N", "o", "n", "e">>
      [] w = "True" -> <<"T", "r", "u", "e">>
      [] w = "False" -> <<"F", "a", "l", "s", "e">>
      [] OTHER -> <<w>>

RECURSIVE Explode(_)
Explode(s) == IF s = <<>> THEN <<>> ELSE Chars(Head(s)) \o Explode(Tail(s))

\* Position of the first token of s at or after p that is in S; 0 when there is none.
RECURSIVE Find(_, _, _)
Find(s, p, S) ==
    IF p > Len(s) THEN 0 ELSE IF s[p] \in S THEN p ELSE Find(s, p + 1, S)

RECURSIVE Repr(_)
RECURSIVE ReprItems(_)
\* str(value) of the host, as tokens (repr for the items of a list or tuple).
ToStr(v) ==
    CASE v.t = "str" -> v.s
      [] v.t = "int" -> <<ToString(v.i)>>
      [] v.t = "none" -> <<"None">>
      [] v.t = "bool" -> IF v.b THEN <<"True">> ELSE <<"False">>
      [] v.t = "list" -> <<"[">> \o ReprItems(v.elems) \o <<"]">>
      [] v.t = "tuple" -> <<"(">> \o ReprItems(v.items) \o <<")">>
      [] v.t = "exc" -> v.msg
      [] OTHER -> <<"<", v.t, ">">>
Repr(v) == IF v.t = "str" THEN <<"'">> \o v.s \o <<"'">> ELSE ToStr(v)
ReprItems(xs) ==
    IF xs = <<>> THEN <<>>
    ELSE IF Len(xs) = 1 THEN Repr(xs[1])
    ELSE Repr(xs[1]) \o <<", ">> \o ReprItems(Tail(xs))

callable(v) == v.t \in {"fn", "type", "lambda"}

\* The key under which format_context renders a payload list.
PayloadKey(name) == CASE name = "p" -> "payload_p" [] OTHER -> "payload_q"

\* The key under which format_context renders an embedded asset's content.
EmbedKey(name) == CASE name = "a" -> "embed_a" [] OTHER -> "embed_b"

\* ExecutionContext.format_context
format_context(c) ==
    LET variables == c.frames[1]
        rendered == [n \in {k \in DOMAIN variables : ~callable(variables[k])} |-> variables[n]]
        setdefault(m, k, v) == IF k \in DOMAIN m THEN m ELSE Put(m, k, v)
        r1 == setdefault(rendered, "targets", ListV(c.targets))
        r2 == setdefault(r1, "scope", ListV(c.scope))
        r3 == IF c.targets # <<>> THEN setdefault(r2, "target", c.targets[1]) ELSE r2
        pl == [k \in {PayloadKey(n) : n \in DOMAIN c.payloads} |->
                  ListV(c.payloads[CHOOSE n \in DOMAIN c.payloads : PayloadKey(n) = k])]
        em == [k \in {EmbedKey(n) : n \in DOMAIN c.embedded_assets} |->
                  c.embedded_assets[CHOOSE n \in DOMAIN c.embedded_assets : EmbedKey(n) = k]]
        r4 == [n \in DOMAIN r3 \cup DOMAIN pl |-> IF n \in DOMAIN r3 THEN r3[n] ELSE pl[n]]
    IN  [n \in DOMAIN r4 \cup DOMAIN em |-> IF n \in DOMAIN r4 THEN r4[n] ELSE em[n]]

\* _FormatDict.__missing__
FormatDict_missing(key) == StrV(<<"{">> \o key \o <<"}">>)

ValueErrorV(m) == ExcV("ValueError", <<m>>)

\* Where the replacement field that starts at p ends: the position of its
\* closing brace, 0 when the string ends first, -1 at a brace opened inside it.
RECURSIVE field_end(_, _)
field_end(s, p) ==
    IF p > Len(s) THEN 0
    ELSE IF s[p] = "{" THEN -1
    ELSE IF s[p] = "}" THEN p
    ELSE IF s[p] = "["
         THEN LET q == Find(s, p + 1, {"]"}) IN IF q = 0 THEN 0 ELSE field_end(s, q)
    ELSE field_end(s, p + 1)

\* obj[index] and getattr(obj, name) as the field name's accessors use them.
getitem_idx(obj, n) ==
    CASE obj.t = "str" ->
           IF n < Len(Explode(obj.s)) THEN Ok(StrV(<<Explode(obj.s)[n + 1]>>))
           ELSE Err(ExcV("IndexError", <<"string index out of range">>))
      [] obj.t = "list" ->
           IF n < Len(obj.elems) THEN Ok(obj.elems[n + 1])
           ELSE Err(ExcV("IndexError", <<"list index out of range">>))
      [] obj.t = "tuple" ->
           IF n < Len(obj.items) THEN Ok(obj.items[n + 1])
           ELSE Err(ExcV("IndexError", <<"tuple index out of range">>))
      [] OTHER -> Err(ExcV("TypeError", <<"object is not subscriptable">>))
getitem_str(obj, key) == Err(ExcV("TypeError", <<"indices must be integers">>))
format_getattr(obj, name) ==
    IF obj.t = "module" /\ Len(name) = 1 /\ name[1] \in DOMAIN obj.attrs
    THEN Ok(obj.attrs[name[1]])
    ELSE Err(ExcV("AttributeError", <<"object has no attribute">>))

\* The accessors (.name and [index]) that follow the first part of a field name.
RECURSIVE field_rest(_, _)
field_rest(obj, r) ==
    IF r = <<>> THEN Ok(obj)
    ELSE IF r[1] = "."
    THEN LET q == Find(r, 2, {".", "["})
             name == IF q = 0 THEN Tail(r) ELSE SubSeq(r, 2, q - 1)
             after == IF q = 0 THEN <<>> ELSE SubSeq(r, q, Len(r))
         IN  IF name = <<>> THEN Err(ValueErrorV("Empty attribute in format string"))
             ELSE LET got == format_getattr(obj, name)
                  IN  IF got.ok THEN field_rest(got.v, after) ELSE got
    ELSE IF r[1] = "["
    THEN LET q == Find(r, 2, {"]"})
         IN  IF q = 0 THEN Err(ValueErrorV("Missing ']' in format string"))
             ELSE LET index == SubSeq(r, 2, q - 1)
                      after == SubSeq(r, q + 1, Len(r))
                  IN  IF index = <<>> THEN Err(ValueErrorV("Empty attribute in format string"))
                      ELSE LET got == IF Len(index) = 1 /\ index[1] \in Digits
                                      THEN getitem_idx(obj, DigitValue(index[1]))
                                      ELSE getitem_str(obj, index)
                           IN  IF got.ok THEN field_rest(got.v, after) ELSE got
    ELSE Err(ValueErrorV("Only '.' or '[' may follow ']' in format field specifier"))

\* One replacement field: look the first part of its name up in the mapping
\* (positional and automatically numbered fields are refused by format_map).
format_field(name, m) ==
    LET q == Find(name, 1, {".", "["})
        first == IF q = 0 THEN name ELSE SubSeq(name, 1, q - 1)
        rest == IF q = 0 THEN <<>> ELSE SubSeq(name, q, Len(name))
    IN  IF first = <<>> \/ \A i \in 1..Len(first) : first[i] \in Digits
        THEN Err(ValueErrorV("Format string contains positional fields"))
        ELSE LET obj == IF Len(first) = 1 /\ first[1] \in DOMAIN m
                        THEN m[first[1]]
                        ELSE FormatDict_missing(first)
             IN  field_rest(obj, rest)

\* str.format_map(mapping) from position i of s on.
RECURSIVE format_map(_, _, _)
format_map(s, i, m) ==
    IF i > Len(s) THEN Ok(<<>>)
    ELSE IF s[i] \notin {"{", "}"} \/ (i < Len(s) /\ s[i + 1] = s[i])
    THEN LET tl == format_map(s, IF s[i] \in {"{", "}"} THEN i + 2 ELSE i + 1, m)
         IN  IF tl.ok THEN Ok(<<s[i]>> \o tl.v) ELSE tl
    ELSE IF s[i] = "}" THEN Err(ValueErrorV("Single '}' encountered in format string"))
    ELSE IF i = Len(s) THEN Err(ValueErrorV("Single '{' encountered in format string"))
    ELSE LET p == field_end(s, i + 1)
         IN  IF p = -1 THEN Err(ValueErrorV("unexpected '{' in field name"))
             ELSE IF p = 0 THEN Err(ValueErrorV("expected '}' before end of string"))
             ELSE LET got == format_field(SubSeq(s, i + 1, p - 1), m)
                  IN  IF ~got.ok THEN got
                      ELSE LET tl == format_map(s, p + 1, m)
                           IN  IF tl.ok THEN Ok(ToStr(got.v) \o tl.v) ELSE tl

\* Interpreter._interpolate
interpolate(c, value) == format_map(value, 1, format_context(c))

(***************************************************************************)
(* Expression evaluation.                                                  *)
(***************************************************************************)
FnV(it, name, parameters, body, defaults, closure, is_async) ==
    [t |-> "fn", it |-> it, name |-> name, parameters |-> parameters, body |-> body,
     defaults |-> defaults, closure |-> closure, is_async |-> is_async]
LambdaV(parameters, body, defaults, closure) ==
    [t |-> "lambda", parameters |-> parameters, body |-> body,
     defaults |-> defaults, closure |-> closure]
\* PendingAsyncCall
PendingV(function, args, kwargs) ==
    [t |-> "pending", function |-> function, args |-> args, kwargs |-> kwargs]

\* A lookup that starts at the global frame.
lookup_oldest(frames, name) ==
    LET where == {i \in 1..Len(frames) : name \in DOMAIN frames[i]}
    IN  IF where = {} THEN [found |-> FALSE, v |-> NoneV]
        ELSE [found |-> TRUE, v |-> frames[CHOOSE i \in where : \A j \in where : i <= j][name]]

\* Interpreter._lookup_variable: the binding in the top-most frame that has one.
lookup_variable(frames, name) ==
    LET where == {i \in 1..Len(frames) : name \in DOMAIN frames[i]}
    IN  IF where = {} THEN [found |-> FALSE, v |-> NoneV]
        ELSE [found |-> TRUE, v |-> frames[SetMax(where)][name]]

\* Interpreter._resolve_identifier
resolve_identifier(c, name) ==
    LET hit == lookup_variable(c.frames, name)
    IN  IF hit.found THEN Ok(hit.v)
        ELSE IF name \in DOMAIN c.modules THEN Ok(c.modules[name])
        ELSE IF name \in DOMAIN c.payloads THEN Ok(ListV(c.payloads[name]))
        ELSE IF name = "targets" THEN Ok(ListV(c.targets))
        ELSE IF name = "scope" THEN Ok(ListV(c.scope))
        ELSE IF name \in DOMAIN c.builtins THEN Ok(c.builtins[name])
        ELSE Err(RuntimeErrorV(<<"Unknown identifier ", name>>))

\* left ** right for a right that is not negative.
RECURSIVE power(_, _)
power(left, right) == IF right = 0 THEN 1 ELSE left * power(left, right - 1)

\* Interpreter._apply_operator
apply_operator(operator, left, right) ==
    LET ints == left.t = "int" /\ right.t = "int"
        strs == left.t = "str" /\ right.t = "str"
        bad == Err(ExcV("TypeError", <<"unsupported operand type(s)">>))
    IN  CASE operator = "PLUS" ->
               IF ints THEN Ok(IntV(left.i + right.i))
               ELSE IF strs THEN Ok(StrV(left.s \o right.s)) ELSE bad
          [] operator = "MINUS" -> IF ints THEN Ok(IntV(left.i - right.i)) ELSE bad
          [] operator = "STAR" -> IF ints THEN Ok(IntV(left.i * right.i)) ELSE bad
          [] operator = "POWER" ->
               IF ints /\ right.i >= 0 THEN Ok(IntV(power(left.i, right.i))) ELSE bad
          [] operator = "EQ" -> Ok(BoolV(ValEq(left, right)))
          [] operator = "NEQ" -> Ok(BoolV(~ValEq(left, right)))
          [] operator = "LT" -> IF ints THEN Ok(BoolV(left.i < right.i)) ELSE bad
          [] operator = "LTE" -> IF ints THEN Ok(BoolV(left.i <= right.i)) ELSE bad
          [] operator = "GT" -> IF ints THEN Ok(BoolV(left.i > right.i)) ELSE bad
          [] operator = "GTE" -> IF ints THEN Ok(BoolV(left.i >= right.i)) ELSE bad
          [] operator = "AND" -> Ok(BoolV(truthy(left) /\ truthy(right)))
          [] operator = "OR" -> Ok(BoolV(truthy(left) \/ truthy(right)))
          [] OTHER -> Err(RuntimeErrorV(<<"Unsupported binary operator ", operator>>))

\* Late binding: a function that captures nothing and resolves its free
\* names when it is called.
late_binding(frames) == EmptyMap

\* The flattened snapshot of every active frame (FunctionDefinition, LambdaExpression).
RECURSIVE closure_of(_)
closure_of(frames) ==
    IF frames = <<>> THEN EmptyMap
    ELSE Update(closure_of(SubSeq(frames, 1, Len(frames) - 1)), frames[Len(frames)])

\* A frame that is left where it is (pop_frame that forgets to pop).
keep_frame(c) == c

\* ExecutionContext.push_frame
push_frame(c, frame) == [c EXCEPT !.frames = Append(@, frame)]
\* ExecutionContext.pop_frame: the global frame is never the one popped.
pop_frame(c) ==
    IF Len(c.frames) <= 1 THEN c ELSE [c EXCEPT !.frames = SubSeq(@, 1, Len(@) - 1)]

\* An assignment that writes the frame enclosing the top-most one.
assign_enclosing(c, name, value) ==
    [c EXCEPT !.frames[IF Len(c.frames) > 1 THEN Len(c.frames) - 1 ELSE 1] = Put(@, name, value)]

\* Interpreter._assign
assign(c, name, value) == [c EXCEPT !.frames[Len(c.frames)] = Put(@, name, value)]

\* Interpreter._iterable
iterable(value) ==
    CASE value.t = "str" -> Ok(<<value>>)
      [] value.t = "list" -> Ok(value.elems)
      [] value.t = "tuple" -> Ok(value.items)
      [] OTHER -> Err(RuntimeErrorV(<<"Value is not iterable">>))

RECURSIVE evaluate_expression(_, _)
RECURSIVE evaluate_all(_, _)
RECURSIVE evaluate_defaults(_, _)
RECURSIVE comprehend(_, _, _)

\* The body of a lambda call after its parameters are bound: the frame is
\* pushed, the body evaluated, and the frame popped whatever the outcome
\* (SAPLLambda.__call__, try/finally).
lambda_frames(c, frame, body) ==
    LET evaluated(pushed) == [r |-> evaluate_expression(pushed, body), c |-> pop_frame(pushed)]
    IN  evaluated(push_frame(c, frame))

\* The loop of a list comprehension over the items still to visit, in the
\* frame the comprehension pushed: bind the iterator, test the condition,
\* evaluate the element.
comprehend(c, e, items) ==
    IF items = <<>> THEN [r |-> Ok(<<>>), c |-> c]
    ELSE LET cons(hd, tl) ==
                 IF ~hd.ok THEN [r |-> hd, c |-> tl.c]
                 ELSE IF tl.r.ok THEN [r |-> Ok(<<hd.v>> \o tl.r.v), c |-> tl.c] ELSE tl
             element(bound) == cons(evaluate_expression(bound, e.expression),
                                    comprehend(bound, e, Tail(items)))
             filter(bound, condition) ==
                 IF ~condition.ok THEN [r |-> condition, c |-> bound]
                 ELSE IF ~truthy(condition.v) THEN comprehend(bound, e, Tail(items))
                 ELSE element(bound)
             visit(bound) ==
                 IF e.condition = PyNone THEN element(bound)
                 ELSE filter(bound, evaluate_expression(bound, e.condition))
         IN  visit(assign(c, e.iterator, Head(items)))

\* ListComprehension in _evaluate_expression, once its iterable has a value:
\* push a frame, loop, and pop the frame in the finally clause.
list_comprehension(c, e, value) ==
    LET popped(x) == [r |-> IF x.r.ok THEN Ok(ListV(x.r.v)) ELSE x.r, c |-> pop_frame(x.c)]
        loop(pushed, items) ==
            IF ~items.ok THEN popped([r |-> items, c |-> pushed])
            ELSE popped(comprehend(pushed, e, items.v))
    IN  loop(push_frame(c, EmptyMap), iterable(value))

\* The elements of a list, tuple or argument list, left to right.
evaluate_all(c, es) ==
    LET cons(hd, tl) == IF ~hd.ok THEN hd ELSE IF tl.ok THEN Ok(<<hd.v>> \o tl.v) ELSE tl
    IN  IF es = <<>> THEN Ok(<<>>)
        ELSE cons(evaluate_expression(c, Head(es)), evaluate_all(c, Tail(es)))

\* The defaults dictionary a DEF or lambda builds: one entry for each
\* parameter whose default field is not the host None.
evaluate_defaults(c, parameters) ==
    IF parameters = <<>> THEN Ok(EmptyMap)
    ELSE LET param == parameters[Len(parameters)]
             add(before, d) ==
                 IF ~before.ok THEN before
                 ELSE IF param.default # PyNone
                 THEN IF d.ok THEN Ok(Put(before.v, param.name, d.v)) ELSE d
                 ELSE before
         IN  add(evaluate_defaults(c, SubSeq(parameters, 1, Len(parameters) - 1)),
                 evaluate_expression(c, param.default))

\* Interpreter._evaluate_expression, calls and AWAIT excepted (start_evaluation).
evaluate_expression(c, e) ==
    CASE e.e = "lit" -> Ok(e.v)
      [] e.e = "id" -> resolve_identifier(c, e.name)
      [] e.e = "attr" ->
           LET getattr(value) ==
                   IF ~value.ok THEN value
                   ELSE IF value.v.t = "module" /\ e.attribute \in DOMAIN value.v.attrs
                   THEN Ok(value.v.attrs[e.attribute])
                   ELSE Err(RuntimeErrorV(<<"Object has no attribute ", e.attribute>>))
           IN  getattr(evaluate_expression(c, e.value))
      [] e.e = "bin" ->
           LET binary(left, right) ==
                   IF ~left.ok THEN left
                   ELSE IF ~right.ok THEN right
                   ELSE apply_operator(e.operator, left.v, right.v)
           IN  binary(evaluate_expression(c, e.left), evaluate_expression(c, e.right))
      [] e.e \in {"list", "tuple"} ->
           LET build(xs) ==
                   IF ~xs.ok THEN xs
                   ELSE Ok(IF e.e = "list" THEN ListV(xs.v) ELSE TupleV(xs.v))
           IN  build(evaluate_all(c, e.elements))
      [] e.e = "lambda" ->
           LET build(defaults) ==
                   IF ~defaults.ok THEN defaults
                   ELSE Ok(LambdaV(e.parameters, e.body, defaults.v, closure_of(c.frames)))
           IN  build(evaluate_defaults(c, e.parameters))
      [] e.e = "cond" ->
           LET branch(condition) ==
                   IF ~condition.ok THEN condition
                   ELSE evaluate_expression(c, IF truthy(condition.v) THEN e.if_true
                                               ELSE e.if_false)
           IN  branch(evaluate_expression(c, e.condition))
      [] e.e = "comp" ->
           LET loop(value) == IF ~value.ok THEN value ELSE list_comprehension(c, e, value.v).r
           IN  loop(evaluate_expression(c, e.iterable))
      [] OTHER -> Err(RuntimeErrorV(<<"unsupported expression">>))

\* Keyword arguments: a dictionary built in source order.
RECURSIVE evaluate_kwargs(_, _)
evaluate_kwargs(c, kws) ==
    IF kws = <<>> THEN Ok(EmptyMap)
    ELSE LET kw == kws[Len(kws)]
             add(before, v) ==
                 IF ~before.ok THEN before
                 ELSE IF v.ok THEN Ok(Put(before.v, kw[1], v.v)) ELSE v
         IN  add(evaluate_kwargs(c, SubSeq(kws, 1, Len(kws) - 1)),
                 evaluate_expression(c, kw[2]))

\* The parameter-binding loop of _call_function and SAPLLambda.__call__:
\* positional argument, else keyword argument, else default, else an error.
RECURSIVE bind_parameters(_, _, _, _, _)
bind_parameters(parameters, defaults, frame, remaining_args, remaining_kwargs) ==
    IF parameters = <<>>
    THEN IF remaining_args # <<>> \/ DOMAIN remaining_kwargs # {}
         THEN Err(RuntimeErrorV(<<"Too many arguments supplied">>))
         ELSE Ok(frame)
    ELSE LET param == Head(parameters)
         IN  IF remaining_args # <<>>
             THEN bind_parameters(Tail(parameters), defaults,
                      Put(frame, param.name, Head(remaining_args)),
                      Tail(remaining_args), remaining_kwargs)
             ELSE IF param.name \in DOMAIN remaining_kwargs
             THEN bind_parameters(Tail(parameters), defaults,
                      Put(frame, param.name, remaining_kwargs[param.name]),
                      remaining_args, Del(remaining_kwargs, param.name))
             ELSE IF param.name \in DOMAIN defaults
             THEN bind_parameters(Tail(parameters), defaults,
                      Put(frame, param.name, defaults[param.name]),
                      remaining_args, remaining_kwargs)
             ELSE Err(RuntimeErrorV(<<"Missing value for parameter ", param.name>>))

Val(v) == [k |-> "val", v |-> v]
Raise(e) == [k |-> "err", v |-> e]
Enter(function, frame) ==
    [k |-> "call", v |-> NoneV, function |-> function, frame |-> frame, awaitAfter |-> FALSE]

\* Interpreter._call_function up to the point where the frame is pushed.
call_function(function, args, kwargs, asynchronous) ==
    IF function.is_async /\ ~asynchronous
    THEN Raise(RuntimeErrorV(<<"Function is asynchronous and must be awaited">>))
    ELSE LET enter(frame) == IF frame.ok THEN Enter(function, frame.v) ELSE Raise(frame.v)
         IN  enter(bind_parameters(function.parameters, function.defaults,
                                   function.closure, args, kwargs))

\* A call that runs the body at once, whatever the declaration.
call_at_once(function, args, kwargs) == call_function(function, args, kwargs, TRUE)

\* Every function, ASYNC or not, called as a synchronous one.
call_synchronously(function, args, kwargs) == call_function(function, args, kwargs, FALSE)

\* Interpreter._invoke_function
invoke_function(function, args, kwargs) ==
    IF function.is_async THEN Val(PendingV(function, args, kwargs))
    ELSE call_function(function, args, kwargs, FALSE)

\* SAPLLambda.__call__: the body is an expression, evaluated in the pushed frame.
lambda_call(c, f, args, kwargs) ==
    LET result(r) == IF r.ok THEN Val(r.v) ELSE Raise(r.v)
        call(frame) ==
            IF ~frame.ok THEN Raise(frame.v)
            ELSE result(lambda_frames(c, frame.v, f.body).r)
    IN  call(bind_parameters(f.parameters, f.defaults, f.closure, args, kwargs))

\* Interpreter._await (host awaitables are not among the values)
await(value) ==
    IF value.t = "pending"
    THEN call_function(value.function, value.args, value.kwargs, TRUE)
    ELSE Raise(RuntimeErrorV(<<"AWAIT requires an awaitable value">>))

\* CallExpression: evaluate callee and arguments, then call.
call_expression(c, e) ==
    LET call(function, args, kwargs) ==
            IF ~function.ok THEN Raise(function.v)
            ELSE IF ~args.ok THEN Raise(args.v)
            ELSE IF ~kwargs.ok THEN Raise(kwargs.v)
            ELSE CASE function.v.t = "fn" -> invoke_function(function.v, args.v, kwargs.v)
                   [] function.v.t = "lambda" -> lambda_call(c, function.v, args.v, kwargs.v)
                   [] function.v.t = "type" ->
                        Val(ExcV(function.v.cls,
                                 IF args.v = <<>> THEN <<>> ELSE ToStr(args.v[1])))
                   [] OTHER ->
                        Raise(RuntimeErrorV(<<"Attempted to call non-callable object">>))
    IN  call(evaluate_expression(c, e.function), evaluate_all(c, e.args),
             evaluate_kwargs(c, e.kwargs))

\* The evaluation of a statement's value: a value, a raised error, or a
\* function body to run first (whose result AWAIT may then have to force).
start_evaluation(c, e) ==
    LET operand == IF e.e = "await" THEN e.expression ELSE e
        awaited(r) ==
            IF e.e # "await" THEN r
            ELSE CASE r.k = "val" -> await(r.v)
                   [] r.k = "err" -> r
                   [] OTHER -> [r EXCEPT !.awaitAfter = TRUE]
        result(v) == IF v.ok THEN Val(v.v) ELSE Raise(v.v)
    IN  IF operand.e = "call" THEN awaited(call_expression(c, operand))
        ELSE awaited(result(evaluate_expression(c, operand)))

(***************************************************************************)
(* Statement nodes (sapl/nodes.py).  An absent alias is the empty string.  *)
(***************************************************************************)
SetStatement(name, value, line) == [s |-> "set", name |-> name, value |-> value, line |-> line]
AssignmentStatement(name, value, line) ==
    [s |-> "assign", targets |-> <<Identifier(name)>>, value |-> value, line |-> line]
AugmentedAssignmentStatement(name, operator, value, line) ==
    [s |-> "aug", target |-> Identifier(name), operator |-> operator, value |-> value, line |-> line]
ExpressionStatement(expression, line) == [s |-> "expr", value |-> expression, line |-> line]
ReturnStatement(value, line) == [s |-> "return", value |-> value, line |-> line]
RaiseStatement(value, line) == [s |-> "raise", value |-> value, line |-> line]
BreakStatement(line) == [s |-> "break", line |-> line]
ContinueStatement(line) == [s |-> "continue", line |-> line]
PassStatement(line) == [s |-> "pass", line |-> line]
IfStatement(condition, body, elif_blocks, else_body, line) ==
    [s |-> "if", condition |-> condition, body |-> body, elif_blocks |-> elif_blocks,
     else_body |-> else_body, line |-> line]
WhileStatement(condition, body, else_body, line) ==
    [s |-> "while", condition |-> condition, body |-> body, else_body |-> else_body, line |-> line]
FunctionDefinition(name, parameters, body, is_async, line) ==
    [s |-> "def", name |-> name, parameters |-> parameters, body |-> body,
     is_async |-> is_async, line |-> line]
ExceptHandler(exception_type, alias, body) ==
    [exception_type |-> exception_type, alias |-> alias, body |-> body]
TryStatement(body, handlers, else_body, finally_body, line) ==
    [s |-> "try", body |-> body, handlers |-> handlers, else_body |-> else_body,
     finally_body |-> finally_body, line |-> line]
WithItem(context, alias) == [context |-> context, alias |-> alias]
WithStatement(items, body, line) == [s |-> "with", items |-> items, body |-> body, line |-> line]
TaskStatement(name, body, line) == [s |-> "task", name |-> name, body |-> body, line |-> line]
NoteStatement(message, line) == [s |-> "note", message |-> message, line |-> line]
TargetStatement(value, line) == [s |-> "target", value |-> value, line |-> line]
PortScanStatement(ports, tool, line) == [s |-> "portscan", ports |-> ports, tool |-> tool, line |-> line]
HttpRequestStatement(method, target, line) ==
    [s |-> "http", method |-> method, target |-> target, line |-> line]
RunStatement(command, line) == [s |-> "run", command |-> command, line |-> line]
OutputStatement(value, line) == [s |-> "output", value |-> value, line |-> line]
FuzzStatement(resource, payload, payloads_expr, line) ==
    [s |-> "fuzz", resource |-> resource, payload |-> payload, payloads_expr |-> payloads_expr,
     line |-> line]
EmbedStatement(language, name, content, line) ==
    [s |-> "embed", language |-> language, name |-> name, content |-> content, line |-> line]
InputStatement(prompt, target, line) ==
    [s |-> "input", prompt |-> prompt, target |-> target, line |-> line]
ImportItem(module, alias) == [module |-> module, alias |-> alias]
ImportStatement(items, line) == [s |-> "import", items |-> items, line |-> line]
FromImportItem(name, alias) == [name |-> name, alias |-> alias]
FromImportStatement(module, items, line) ==
    [s |-> "from", module |-> module, items |-> items, line |-> line]

(***************************************************************************)
(* ExecutionContext and its methods.                                       *)
(***************************************************************************)
\* ExecutionContext.__init__ (with the Interpreter's _function_stack)
ExecutionContext(builtins) ==
    [frames |-> <<EmptyMap>>, modules |-> EmptyMap, targets |-> <<>>, scope |-> <<>>,
     payloads |-> EmptyMap, embedded_assets |-> EmptyMap, tasks |-> <<>>, standalone_actions |-> <<>>, notes |-> <<>>,
     task_stack |-> <<>>, builtins |-> builtins, function_stack |-> <<>>]

Action(kind, detail, line) == [kind |-> kind, detail |-> detail, line |-> line]
Task(name, line) == [name |-> name, line |-> line, steps |-> <<>>]

\* A task that stays the current one after its body.
keep_task(c) == c

push_task(c) == [c EXCEPT !.task_stack = Append(@, Len(c.tasks))]
pop_task(c) == [c EXCEPT !.task_stack = SubSeq(@, 1, Len(@) - 1)]

\* An action list chosen by the outermost task that is executing.
add_to_outermost(c, action) ==
    IF c.task_stack # <<>>
    THEN [c EXCEPT !.tasks[c.task_stack[1]].steps = Append(@, action)]
    ELSE [c EXCEPT !.standalone_actions = Append(@, action)]

\* ExecutionContext.add_action
add_action(c, action) ==
    IF c.task_stack # <<>>
    THEN [c EXCEPT !.tasks[c.task_stack[Len(c.task_stack)]].steps = Append(@, action)]
    ELSE [c EXCEPT !.standalone_actions = Append(@, action)]

\* Interpreter._delete
delete(c, name) ==
    LET where == {i \in 1..Len(c.frames) : name \in DOMAIN c.frames[i]}
    IN  IF where = {} THEN c ELSE [c EXCEPT !.frames[SetMax(where)] = Del(@, name)]

\* Interpreter._evaluate_string
evaluate_string(c, expression) ==
    IF expression = PyNone THEN Ok(<<>>)
    ELSE LET string(value) ==
                 IF ~value.ok THEN value
                 ELSE IF value.v.t # "str"
                 THEN Err(RuntimeErrorV(<<"Expected string value">>))
                 ELSE interpolate(c, value.v.s)
         IN  string(evaluate_expression(c, expression))

\* Interpreter._coerce_iterable
coerce_iterable(c, expression) ==
    LET value == evaluate_expression(c, expression)
    IN  IF value.ok THEN iterable(value.v) ELSE value

(***************************************************************************)
(* The machine.  The top of stack is the executor that runs; an entry      *)
(* below a block is the statement executor (or _call_function) that        *)
(* called _execute_block and that the block returns or raises into.        *)
(***************************************************************************)
Top == stack[Len(stack)]
Rest == SubSeq(stack, 1, Len(stack) - 1)
Cur == Top.it
Block(it, body) == [k |-> "block", it |-> it, body |-> body, pc |-> 1]
Stmt == Top.body[Top.pc]
Advanced == [stack EXCEPT ![Len(stack)].pc = @ + 1]

AtStatement(kind) ==
    /\ status = "running" /\ sig.k = "none" /\ stack # <<>>
    /\ Top.k = "block" /\ Top.pc <= Len(Top.body)
    /\ Stmt.s = kind

AtExecutor(kind) == status = "running" /\ stack # <<>> /\ Top.k = kind

Step(it, c, st, s) ==
    /\ ctx' = [ctx EXCEPT ![it] = c]
    /\ stack' = st
    /\ sig' = s
    /\ UNCHANGED <<status, cmlog, input>>

\* The current statement returns, or raises e.
Done(c) == Step(Cur, c, Advanced, NoSig)
Throw(e) == Step(Cur, ctx[Cur], Advanced, ErrorSig(e))

\* A SET that writes the top-most frame.
deliver_local(c, stmt, v) ==
    CASE stmt.s \in {"set", "assign"} ->
           [c |-> assign(c, IF stmt.s = "set" THEN stmt.name ELSE stmt.targets[1].name, v),
            sig |-> NoSig]
      [] stmt.s = "return" -> [c |-> c, sig |-> ReturnSignal(v)]
      [] OTHER -> [c |-> c, sig |-> NoSig]

\* What a statement does with the value of its expression.
deliver(c, stmt, v) ==
    CASE stmt.s = "set" -> [c |-> [c EXCEPT !.frames[1] = Put(@, stmt.name, v)], sig |-> NoSig]
      [] stmt.s = "assign" -> [c |-> assign(c, stmt.targets[1].name, v), sig |-> NoSig]
      [] stmt.s = "return" -> [c |-> c, sig |-> ReturnSignal(v)]
      [] stmt.s = "raise" ->
           [c |-> c,
            sig |-> IF v.t = "exc" THEN ErrorSig(v)
                    ELSE ErrorSig(RuntimeErrorV(<<"Cannot raise value of type ", v.t>>))]
      [] OTHER -> [c |-> c, sig |-> NoSig]

\* _call_function from push_frame on: the callee's frame and body are entered.
EnterCall(r, stmt, st, caller) ==
    /\ ctx' = [ctx EXCEPT ![r.function.it] =
                  [push_frame(@, r.frame) EXCEPT !.function_stack = Append(@, r.function.name)]]
    /\ stack' = st \o <<[k |-> "call", it |-> r.function.it, caller |-> caller, stmt |-> stmt,
                         awaitAfter |-> r.awaitAfter],
                        Block(r.function.it, r.function.body)>>
    /\ sig' = NoSig
    /\ UNCHANGED <<status, cmlog, input>>

\* A statement that evaluates one expression and then acts on its value.
execute_value_statement ==
    LET finish(d) == Step(Cur, d.c, Advanced, d.sig)
        continue(r) ==
            CASE r.k = "val" -> finish(deliver(ctx[Cur], Stmt, r.v))
              [] r.k = "err" -> Throw(r.v)
              [] OTHER -> EnterCall(r, Stmt, Advanced, Cur)
    IN  continue(start_evaluation(ctx[Cur], Stmt.value))

\* SetStatement
ExecSet == AtStatement("set") /\ execute_value_statement

\* AssignmentStatement (one identifier target)
ExecAssignment == AtStatement("assign") /\ execute_value_statement

\* ExpressionStatement
ExecExpression == AtStatement("expr") /\ execute_value_statement

\* ReturnStatement
ExecReturn ==
    /\ AtStatement("return")
    /\ IF ctx[Cur].function_stack = <<>>
       THEN Throw(RuntimeErrorV(<<"RETURN used outside of a function">>))
       ELSE execute_value_statement

\* RaiseStatement
ExecRaise ==
    /\ AtStatement("raise")
    /\ IF Stmt.value = PyNone
       THEN Throw(RuntimeErrorV(<<"RAISE requires an exception value">>))
       ELSE execute_value_statement

\* _call_function: the body returned (a _ReturnSignal or its end); the
\* finally clause pops the function stack and the frame.
CallReturn ==
    /\ AtExecutor("call") /\ sig.k \in {"none", "return"}
    /\ LET value == IF sig.k = "return" THEN sig.val ELSE NoneV
           callee == [pop_frame(ctx[Cur]) EXCEPT
                         !.function_stack = SubSeq(@, 1, Len(@) - 1)]
           popped == [ctx EXCEPT ![Cur] = callee]
           finish(d) ==
               /\ ctx' = [popped EXCEPT ![Top.caller] = d.c]
               /\ stack' = Rest
               /\ sig' = d.sig
               /\ UNCHANGED <<status, cmlog, input>>
           continue(r) ==
             CASE r.k = "val" -> finish(deliver(popped[Top.caller], Top.stmt, r.v))
             [] r.k = "err" ->
                  /\ ctx' = popped
                  /\ stack' = Rest
                  /\ sig' = ErrorSig(r.v)
                  /\ UNCHANGED <<status, cmlog, input>>
             [] OTHER ->
                  /\ ctx' = [popped EXCEPT ![r.function.it] =
                                [push_frame(@, r.frame) EXCEPT
                                    !.function_stack = Append(@, r.function.name)]]
                  /\ stack' = Rest \o <<[k |-> "call", it |-> r.function.it,
                                         caller |-> Top.caller, stmt |-> Top.stmt,
                                         awaitAfter |-> FALSE],
                                        Block(r.function.it, r.function.body)>>
                  /\ sig' = NoSig
                  /\ UNCHANGED <<status, cmlog, input>>
       IN  continue(IF Top.awaitAfter THEN await(value) ELSE Val(value))

\* _call_function: any other exception leaves through the finally clause.
CallUnwind ==
    /\ AtExecutor("call") /\ sig.k \notin {"none", "return"}
    /\ Step(Cur, [pop_frame(ctx[Cur]) EXCEPT !.function_stack = SubSeq(@, 1, Len(@) - 1)],
            Rest, sig)

\* _execute_block: every statement was executed.
BlockEnd ==
    /\ AtExecutor("block") /\ sig.k = "none" /\ Top.pc > Len(Top.body)
    /\ Step(Cur, ctx[Cur], Rest, NoSig)

\* _execute_block: a statement raised.
BlockUnwind ==
    /\ AtExecutor("block") /\ sig.k # "none"
    /\ Step(Cur, ctx[Cur], Rest, sig)

\* Interpreter.execute returns its ExecutionResult.
ExecuteReturn ==
    /\ status = "running" /\ stack = <<>> /\ sig.k = "none"
    /\ status' = "done"
    /\ UNCHANGED <<ctx, stack, sig, cmlog, input>>

\* Interpreter.execute raises.
ExecuteRaise ==
    /\ status = "running" /\ stack = <<>> /\ sig.k # "none"
    /\ status' = "failed"
    /\ UNCHANGED <<ctx, stack, sig, cmlog, input>>

\* BreakStatement
ExecBreak == AtStatement("break") /\ Step(Cur, ctx[Cur], Advanced, BreakSignal)

\* ContinueStatement
ExecContinue == AtStatement("continue") /\ Step(Cur, ctx[Cur], Advanced, ContinueSignal)

\* PassStatement
ExecPass == AtStatement("pass") /\ Done(ctx[Cur])

\* AugmentedAssignmentStatement (identifier target): _read_target,
\* _apply_augmented, _assign_target
ExecAugmentedAssignment ==
    /\ AtStatement("aug")
    /\ LET op == CASE Stmt.operator = "PLUSEQ" -> "PLUS"
                   [] Stmt.operator = "MINUSEQ" -> "MINUS"
                   [] Stmt.operator = "STAREQ" -> "STAR"
                   [] OTHER -> "unsupported"
           store(result) ==
               IF result.ok THEN Done(assign(ctx[Cur], Stmt.target.name, result.v))
               ELSE Throw(result.v)
           apply(current, increment) ==
               IF ~current.ok THEN Throw(current.v)
               ELSE IF ~increment.ok THEN Throw(increment.v)
               ELSE store(apply_operator(op, current.v, increment.v))
       IN  apply(resolve_identifier(ctx[Cur], Stmt.target.name),
                 evaluate_expression(ctx[Cur], Stmt.value))

\* A function that belongs to the root interpreter wherever it is defined.
define_for_root(c, it, statement, defaults) ==
    LET function == FnV(1, statement.name, statement.parameters, statement.body,
                        defaults, closure_of(c.frames), statement.is_async)
    IN  [c EXCEPT !.frames[Len(c.frames)] = Put(@, statement.name, function)]

\* FunctionDefinition
define_function(c, it, statement, defaults) ==
    LET function == FnV(it, statement.name, statement.parameters, statement.body,
                        defaults, closure_of(c.frames), statement.is_async)
    IN  [c EXCEPT !.frames[Len(c.frames)] = Put(@, statement.name, function)]

ExecFunctionDefinition ==
    /\ AtStatement("def")
    /\ LET define(defaults) ==
               IF defaults.ok THEN Done(define_function(ctx[Cur], Cur, Stmt, defaults.v))
               ELSE Throw(defaults.v)
       IN  define(evaluate_defaults(ctx[Cur], Stmt.parameters))

\* The branch an IF statement runs: its body, the body of the first ELIF
\* whose condition is true, or its ELSE body.
RECURSIVE elif_branch(_, _, _)
elif_branch(c, elif_blocks, else_body) ==
    IF elif_blocks = <<>> THEN Ok(else_body)
    ELSE LET test(cond) ==
                 IF ~cond.ok THEN cond
                 ELSE IF truthy(cond.v) THEN Ok(elif_blocks[1][2])
                 ELSE elif_branch(c, Tail(elif_blocks), else_body)
         IN  test(evaluate_expression(c, elif_blocks[1][1]))

\* IfStatement
ExecIf ==
    /\ AtStatement("if")
    /\ LET run(branch) ==
               IF ~branch.ok THEN Throw(branch.v)
               ELSE Step(Cur, ctx[Cur], Advanced \o <<Block(Cur, branch.v)>>, NoSig)
           test(cond) ==
               IF ~cond.ok THEN Throw(cond.v)
               ELSE IF truthy(cond.v) THEN run(Ok(Stmt.body))
               ELSE run(elif_branch(ctx[Cur], Stmt.elif_blocks, Stmt.else_body))
       IN  test(evaluate_expression(ctx[Cur], Stmt.condition))

\* WhileStatement: the statement is entered.
ExecWhile ==
    /\ AtStatement("while")
    /\ Step(Cur, ctx[Cur],
            Advanced \o <<[k |-> "while", it |-> Cur, stmt |-> Stmt, phase |-> "loop"]>>, NoSig)

\* A loop that ends on either signal.
stop_on_signal(entry, s) ==
    IF entry.phase = "loop" /\ s.k \in {"continue", "break"} THEN [pop |-> TRUE, sig |-> NoSig]
    ELSE [pop |-> TRUE, sig |-> s]

\* What the while executor does when control comes back to it with exception s.
while_catch(entry, s) ==
    IF entry.phase = "loop" /\ s.k = "continue" THEN [pop |-> FALSE, sig |-> NoSig]
    ELSE IF entry.phase = "loop" /\ s.k = "break" THEN [pop |-> TRUE, sig |-> NoSig]
    ELSE [pop |-> TRUE, sig |-> s]

\* WhileStatement: the condition is tested; the ELSE body follows a false condition.
WhileTest ==
    /\ AtExecutor("while") /\ sig.k = "none" /\ Top.phase = "loop"
    /\ LET test(cond) ==
               IF ~cond.ok THEN Step(Cur, ctx[Cur], Rest, ErrorSig(cond.v))
               ELSE IF truthy(cond.v)
               THEN Step(Cur, ctx[Cur], stack \o <<Block(Cur, Top.stmt.body)>>, NoSig)
               ELSE IF Top.stmt.else_body # <<>>
               THEN Step(Cur, ctx[Cur],
                         Rest \o <<[Top EXCEPT !.phase = "else"],
                                   Block(Cur, Top.stmt.else_body)>>,
                         NoSig)
               ELSE Step(Cur, ctx[Cur], Rest, NoSig)
       IN  test(evaluate_expression(ctx[Cur], Top.stmt.condition))

\* WhileStatement: the ELSE body is done.
WhileElseEnd ==
    /\ AtExecutor("while") /\ sig.k = "none" /\ Top.phase = "else"
    /\ Step(Cur, ctx[Cur], Rest, NoSig)

\* WhileStatement: the except clauses for _ContinueSignal and _BreakSignal.
WhileCatch ==
    /\ AtExecutor("while") /\ sig.k # "none"
    /\ LET h == while_catch(Top, sig)
       IN  Step(Cur, ctx[Cur], IF h.pop THEN Rest ELSE stack, h.sig)

\* A loop that leaves its variable as the last iteration set it.
for_keep(c, entry) == c

\* ForStatement: the finally clause that restores the loop variable.
for_restore(c, entry) ==
    IF entry.sentinel THEN delete(c, entry.stmt.iterator)
    ELSE assign(c, entry.stmt.iterator, entry.previous_value)

\* ForStatement: the statement is entered.
ExecFor ==
    /\ AtStatement("for")
    /\ LET entry(items, previous) ==
               [k |-> "for", it |-> Cur, stmt |-> Stmt,
                items |-> IF items.ok THEN items.v ELSE <<>>,
                previous_value |-> previous.v,
                sentinel |-> previous.v = NoneV]
           loop(items) ==
               Step(Cur, ctx[Cur],
                    Advanced \o <<entry(items, lookup_variable(ctx[Cur].frames, Stmt.iterator))>>,
                    IF items.ok THEN NoSig ELSE ErrorSig(items.v))
           enter(value) == IF ~value.ok THEN Throw(value.v) ELSE loop(iterable(value.v))
       IN  enter(evaluate_expression(ctx[Cur], Stmt.iterable))

\* ForStatement: the next item is assigned and the body run, or the loop ends.
ForNext ==
    /\ AtExecutor("for") /\ sig.k = "none"
    /\ IF Top.items = <<>>
       THEN Step(Cur, for_restore(ctx[Cur], Top), Rest, NoSig)
       ELSE Step(Cur, assign(ctx[Cur], Top.stmt.iterator, Head(Top.items)),
                 Rest \o <<[Top EXCEPT !.items = Tail(@)], Block(Cur, Top.stmt.body)>>, NoSig)

\* ForStatement: the except clauses for _ContinueSignal and _BreakSignal.
ForCatch ==
    /\ AtExecutor("for") /\ sig.k # "none"
    /\ IF sig.k = "continue" THEN Step(Cur, ctx[Cur], stack, NoSig)
       ELSE Step(Cur, for_restore(ctx[Cur], Top), Rest,
                 IF sig.k = "break" THEN NoSig ELSE sig)

\* Clauses that match on the exact class of the exception only.
RECURSIVE exact_class_handler(_, _, _, _)
exact_class_handler(c, handlers, i, s) ==
    IF i > Len(handlers) THEN [k |-> "none", i |-> 0, v |-> NoneV]
    ELSE IF handlers[i].exception_type = PyNone THEN [k |-> "match", i |-> i, v |-> NoneV]
    ELSE LET expected == evaluate_expression(c, handlers[i].exception_type)
         IN  IF expected.ok /\ expected.v.t = "type" /\ expected.v.cls = SigClass(s)
             THEN [k |-> "match", i |-> i, v |-> NoneV]
             ELSE exact_class_handler(c, handlers, i + 1, s)

\* TryStatement: the first EXCEPT clause that takes exception s, if any
\* (evaluating a clause's type expression may itself raise).
RECURSIVE find_handler(_, _, _, _)
find_handler(c, handlers, i, s) ==
    IF i > Len(handlers) THEN [k |-> "none", i |-> 0, v |-> NoneV]
    ELSE IF handlers[i].exception_type = PyNone THEN [k |-> "match", i |-> i, v |-> NoneV]
    ELSE LET isinstance_any(expected_types) ==
                 \E j \in 1..Len(expected_types) :
                     /\ expected_types[j].t = "type"
                     /\ expected_types[j].cls \in Ancestors(SigClass(s))
             match(expected) ==
                 IF ~expected.ok THEN [k |-> "err", i |-> i, v |-> expected.v]
                 ELSE IF isinstance_any(IF expected.v.t = "tuple" THEN expected.v.items
                                        ELSE <<expected.v>>)
                 THEN [k |-> "match", i |-> i, v |-> NoneV]
                 ELSE find_handler(c, handlers, i + 1, s)
         IN  match(evaluate_expression(c, handlers[i].exception_type))

\* TryStatement: the statement is entered and its body run.
ExecTry ==
    /\ AtStatement("try")
    /\ Step(Cur, ctx[Cur],
            Advanced \o <<[k |-> "try", it |-> Cur, stmt |-> Stmt, phase |-> "body",
                           pending |-> NoSig],
                          Block(Cur, Stmt.body)>>, NoSig)

\* A FINALLY body that is skipped when an exception is pending.
finally_unless_raised(st, entry, s) ==
    IF entry.stmt.finally_body # <<>> /\ s.k = "none"
    THEN [stack |-> st \o <<[entry EXCEPT !.phase = "finally", !.pending = s],
                             Block(entry.it, entry.stmt.finally_body)>>,
          sig |-> NoSig]
    ELSE [stack |-> st, sig |-> s]

\* TryStatement: the finally clause is reached with exception s pending.
enter_finally(st, entry, s) ==
    IF entry.stmt.finally_body # <<>>
    THEN [stack |-> st \o <<[entry EXCEPT !.phase = "finally", !.pending = s],
                             Block(entry.it, entry.stmt.finally_body)>>,
          sig |-> NoSig]
    ELSE [stack |-> st, sig |-> s]

\* TryStatement: the body completed; the ELSE body runs, then FINALLY.
TryBodyEnd ==
    /\ AtExecutor("try") /\ Top.phase = "body" /\ sig.k = "none"
    /\ IF Top.stmt.else_body # <<>>
       THEN Step(Cur, ctx[Cur],
                 Rest \o <<[Top EXCEPT !.phase = "else"], Block(Cur, Top.stmt.else_body)>>,
                 NoSig)
       ELSE LET finally(f) == Step(Cur, ctx[Cur], f.stack, f.sig)
            IN  finally(enter_finally(Rest, Top, NoSig))

\* TryStatement: "except Exception" caught what the body raised.
TryExcept ==
    /\ AtExecutor("try") /\ Top.phase = "body" /\ sig.k # "none"
    /\ LET finally(f) == Step(Cur, ctx[Cur], f.stack, f.sig)
           run(handler, pushed) ==
               Step(Cur,
                    IF handler.alias # "" THEN assign(pushed, handler.alias, SigValue(sig))
                    ELSE pushed,
                    Rest \o <<[Top EXCEPT !.phase = "handler"], Block(Cur, handler.body)>>,
                    NoSig)
           handle(h) ==
               CASE h.k = "match" -> run(Top.stmt.handlers[h.i], push_frame(ctx[Cur], EmptyMap))
                 [] h.k = "err" -> finally(enter_finally(Rest, Top, ErrorSig(h.v)))
                 [] OTHER -> finally(enter_finally(Rest, Top, sig))
       IN  handle(find_handler(ctx[Cur], Top.stmt.handlers, 1, sig))

\* TryStatement: a handler body or the ELSE body returned or raised; the
\* handler's frame is popped and FINALLY runs.
TryClauseExit ==
    /\ AtExecutor("try") /\ Top.phase \in {"handler", "else"}
    /\ LET finally(f) ==
               Step(Cur, IF Top.phase = "handler" THEN pop_frame(ctx[Cur]) ELSE ctx[Cur],
                    f.stack, f.sig)
       IN  finally(enter_finally(Rest, Top, sig))

\* TryStatement: the FINALLY body returned (the pending exception is
\* raised again) or raised itself.
TryFinallyExit ==
    /\ AtExecutor("try") /\ Top.phase = "finally"
    /\ Step(Cur, ctx[Cur], Rest, IF sig.k = "none" THEN Top.pending ELSE sig)

\* WithStatement: the managers are evaluated and entered in turn.
RECURSIVE enter_items(_, _, _, _)
enter_items(c, items, entered, log) ==
    IF items = <<>> THEN [c |-> c, entered |-> entered, log |-> log, err |-> NoSig]
    ELSE LET item == Head(items)
             failed(e) == [c |-> c, entered |-> entered, log |-> log, err |-> ErrorSig(e)]
             enter_context(manager) ==
                 IF ~manager.ok THEN failed(manager.v)
                 ELSE IF manager.v.t # "cm"
                 THEN failed(ExcV("TypeError",
                                  <<"object does not support the context manager protocol">>))
                 ELSE IF manager.v.enterFails
                 THEN failed(ExcV("E1", <<"enter failed">>))
                 ELSE enter_items(IF item.alias # "" THEN assign(c, item.alias, manager.v) ELSE c,
                                  Tail(items), Append(entered, manager.v),
                                  Append(log, <<"enter", manager.v.id>>))
         IN  enter_context(evaluate_expression(c, item.context))

\* Managers exited in the order they were entered.
exit_in_entry_order(entered) == [i \in DOMAIN entered |-> <<"exit", entered[i].id>>]

\* ExitStack.__exit__: the managers entered are exited in reverse order.
RECURSIVE exit_log(_)
exit_log(entered) ==
    IF entered = <<>> THEN <<>>
    ELSE <<<<"exit", entered[Len(entered)].id>>>> \o exit_log(SubSeq(entered, 1, Len(entered) - 1))

\* WithStatement: the statement is entered.
ExecWith ==
    /\ AtStatement("with")
    /\ LET entry(r) == [k |-> "with", it |-> Cur, entered |-> r.entered]
           enter(r) ==
               /\ ctx' = [ctx EXCEPT ![Cur] = r.c]
               /\ cmlog' = cmlog \o r.log
               /\ sig' = r.err
               /\ stack' = IF r.err.k = "none"
                           THEN Advanced \o <<entry(r), Block(Cur, Stmt.body)>>
                           ELSE Advanced \o <<entry(r)>>
               /\ UNCHANGED <<status, input>>
       IN  enter(enter_items(push_frame(ctx[Cur], EmptyMap), Stmt.items, <<>>, <<>>))

\* WithStatement: the frame is popped and the ExitStack closed; a manager
\* whose __exit__ returns true swallows the exception.
WithExit ==
    /\ AtExecutor("with")
    /\ ctx' = [ctx EXCEPT ![Cur] = pop_frame(@)]
    /\ cmlog' = cmlog \o exit_log(Top.entered)
    /\ sig' = IF \E i \in 1..Len(Top.entered) : Top.entered[i].suppress THEN NoSig ELSE sig
    /\ stack' = Rest
    /\ UNCHANGED <<status, input>>

\* TaskStatement
ExecTask ==
    /\ AtStatement("task")
    /\ LET enter(task_name) ==
               IF ~task_name.ok THEN Throw(task_name.v)
               ELSE Step(Cur,
                         push_task([ctx[Cur] EXCEPT
                                       !.tasks = Append(@, Task(task_name.v, Stmt.line))]),
                         Advanced \o <<[k |-> "task", it |-> Cur,
                                        task |-> Len(ctx[Cur].tasks) + 1],
                                       Block(Cur, Stmt.body)>>,
                         NoSig)
       IN  enter(interpolate(ctx[Cur], Stmt.name))

\* ExecutionContext.push_task: the finally clause.
TaskExit ==
    /\ AtExecutor("task")
    /\ Step(Cur, pop_task(ctx[Cur]), Rest, sig)

\* str(item) for every item
RECURSIVE strings(_)
strings(xs) == IF xs = <<>> THEN <<>> ELSE <<StrV(ToStr(Head(xs)))>> \o strings(Tail(xs))

\* NoteStatement
ExecNote ==
    /\ AtStatement("note")
    /\ LET note(message) ==
               IF message.ok THEN Done([ctx[Cur] EXCEPT !.notes = Append(@, message.v)])
               ELSE Throw(message.v)
       IN  note(evaluate_string(ctx[Cur], Stmt.message))

\* TargetStatement
ExecTarget ==
    /\ AtStatement("target")
    /\ LET extend(values) ==
               IF values.ok THEN Done([ctx[Cur] EXCEPT !.targets = @ \o strings(values.v)])
               ELSE Throw(values.v)
       IN  extend(coerce_iterable(ctx[Cur], Stmt.value))

\* PortScanStatement
ExecPortScan ==
    /\ AtStatement("portscan")
    /\ LET scan(ports, tool) ==
               IF ~ports.ok THEN Throw(ports.v)
               ELSE IF ~tool.ok THEN Throw(tool.v)
               ELSE Done(add_action(ctx[Cur],
                                    Action("portscan", ListV(strings(ports.v)), Stmt.line)))
       IN  scan(coerce_iterable(ctx[Cur], Stmt.ports), evaluate_string(ctx[Cur], Stmt.tool))

\* HttpRequestStatement
ExecHttp ==
    /\ AtStatement("http")
    /\ LET request(target) ==
               IF target.ok
               THEN Done(add_action(ctx[Cur], Action("http", StrV(target.v), Stmt.line)))
               ELSE Throw(target.v)
       IN  request(evaluate_string(ctx[Cur], Stmt.target))

\* FuzzStatement
ExecFuzz ==
    /\ AtStatement("fuzz")
    /\ LET named == IF Stmt.payload = "" THEN <<>> ELSE ctx[Cur].payloads[Stmt.payload]
           fuzz(resource, more) ==
               IF ~resource.ok THEN Throw(resource.v)
               ELSE IF Stmt.payload # "" /\ Stmt.payload \notin DOMAIN ctx[Cur].payloads
               THEN Throw(RuntimeErrorV(<<"Unknown payload: ", Stmt.payload>>))
               ELSE IF ~more.ok THEN Throw(more.v)
               ELSE Done(add_action(ctx[Cur],
                                    Action("fuzz", ListV(named \o strings(more.v)), Stmt.line)))
       IN  fuzz(evaluate_string(ctx[Cur], Stmt.resource),
                IF Stmt.payloads_expr = PyNone THEN Ok(<<>>)
                ELSE coerce_iterable(ctx[Cur], Stmt.payloads_expr))

\* RunStatement
ExecRun ==
    /\ AtStatement("run")
    /\ LET run(command) ==
               IF command.ok
               THEN Done(add_action(ctx[Cur], Action("run", StrV(command.v), Stmt.line)))
               ELSE Throw(command.v)
       IN  run(evaluate_string(ctx[Cur], Stmt.command))

\* EmbedStatement (string content, no metadata)
ExecEmbed ==
    /\ AtStatement("embed")
    /\ LET store(stored_content) ==
               IF ~stored_content.ok THEN Throw(stored_content.v)
               ELSE Done(add_action(
                        [ctx[Cur] EXCEPT
                            !.embedded_assets = Put(@, Stmt.name, StrV(stored_content.v))],
                        Action("embed", StrV(stored_content.v), Stmt.line)))
           embed(content_value) ==
               IF ~content_value.ok THEN Throw(content_value.v)
               ELSE IF content_value.v.t # "str"
               THEN Throw(RuntimeErrorV(<<"EMBED content must evaluate to str or bytes">>))
               ELSE store(interpolate(ctx[Cur], content_value.v.s))
       IN  embed(evaluate_expression(ctx[Cur], Stmt.content))

\* What the host's input function may return.
InputValues == {StrV(<<"typed">>)}

\* InputStatement
ExecInput ==
    /\ AtStatement("input")
    /\ LET read(prompt) ==
               IF ~prompt.ok THEN Throw(prompt.v)
               ELSE \E value \in InputValues :
                        Done(add_action(IF Stmt.target # ""
                                        THEN assign(ctx[Cur], Stmt.target, value)
                                        ELSE ctx[Cur],
                                        Action("input", value, Stmt.line)))
           ask(prompt_value) ==
               IF ~prompt_value.ok THEN Throw(prompt_value.v)
               ELSE IF prompt_value.v.t = "str"
               THEN read(interpolate(ctx[Cur], prompt_value.v.s))
               ELSE read(Ok(ToStr(prompt_value.v)))
       IN  IF "input" \notin DOMAIN ctx[Cur].builtins
           THEN Throw(RuntimeErrorV(<<"INPUT statements require the 'input' builtin">>))
           ELSE ask(IF Stmt.prompt = PyNone THEN Ok(StrV(<<>>))
                    ELSE evaluate_expression(ctx[Cur], Stmt.prompt))

\* OutputStatement
ExecOutput ==
    /\ AtStatement("output")
    /\ LET print(rendered) ==
               IF ~rendered.ok THEN Throw(rendered.v)
               ELSE Done(add_action(ctx[Cur], Action("output", rendered.v, Stmt.line)))
           text(string) == IF string.ok THEN Ok(StrV(string.v)) ELSE string
           render(value) ==
               IF ~value.ok THEN Throw(value.v)
               ELSE IF value.v.t = "str" THEN print(text(interpolate(ctx[Cur], value.v.s)))
               ELSE print(value)
       IN  IF "print" \notin DOMAIN ctx[Cur].builtins
           THEN Throw(RuntimeErrorV(<<"OUTPUT statements require the 'print' builtin">>))
           ELSE render(evaluate_expression(ctx[Cur], Stmt.value))

(***************************************************************************)
(* Modules.                                                                *)
(***************************************************************************)
\* ".".join(module_path)
Dotted(path) ==
    IF Len(path) = 1 THEN path[1]
    ELSE CASE path = <<"pkg", "m">> -> "pkg.m" [] OTHER -> "pkg.other"

\* The builtins every Interpreter starts with (stdlib.load_builtins).
StdBuiltins == [n \in {"print", "input"} |-> [t |-> "host", name |-> n]]

\* What the embedding program registers with register_builtin before
\* execution: exception classes and host context managers.
PluginBuiltins ==
    [n \in {"E1", "E1a", "E2", "cm1", "cm2", "cmbad", "cmquiet"} |->
        CASE n = "cm1" -> CmV(1, FALSE, FALSE)
          [] n = "cm2" -> CmV(2, FALSE, FALSE)
          [] n = "cmbad" -> CmV(3, TRUE, FALSE)
          [] n = "cmquiet" -> CmV(4, FALSE, TRUE)
          [] OTHER -> TypeV(n)]

\* The standard-library catalogue stdlib.import_module serves.
StdCatalog == {"asyncio"}

\* The .sapl files ModuleLoader.resolve finds, by dotted path.
Files == input.files

\* Interpreter._import_module up to the point where a file has to be loaded.
\* A user module is given as an empty module without being loaded.
import_unloaded(c, path) ==
    IF Dotted(path) \in DOMAIN Files
    THEN [k |-> "val", c |-> c, v |-> ModuleV(Dotted(path), EmptyMap)]
    ELSE [k |-> "err", c |-> c,
          v |-> RuntimeErrorV(<<Dotted(path), " is not part of the SAPL standard library">>)]

import_module(c, path) ==
    LET dotted == Dotted(path)
    IN  IF dotted \in DOMAIN c.modules /\ c.modules[dotted].t = "module"
        THEN [k |-> "val", c |-> c, v |-> c.modules[dotted]]
        ELSE IF dotted \in StdCatalog
        THEN LET module == ModuleV(dotted, EmptyMap)
             IN  [k |-> "val", c |-> [c EXCEPT !.modules = Put(@, dotted, module)], v |-> module]
        ELSE IF dotted \notin DOMAIN Files
        THEN [k |-> "err", c |-> c,
              v |-> RuntimeErrorV(<<dotted, " is not part of the SAPL standard library">>)]
        ELSE [k |-> "load", c |-> c, v |-> NoneV]

\* An import that also copies the module's names into the global frame.
bind_with_contents(c, item, module) ==
    LET alias == IF item.alias # "" THEN item.alias ELSE item.module[Len(item.module)]
    IN  [c EXCEPT !.frames[1] = Put(Update(@, module.attrs), alias, module),
                  !.modules = Put(@, alias, module)]

\* ImportStatement: what one item binds.
bind_import(c, item, module) ==
    LET alias == IF item.alias # "" THEN item.alias ELSE item.module[Len(item.module)]
    IN  [c EXCEPT !.frames[1] = Put(@, alias, module), !.modules = Put(@, alias, module)]

\* FromImportStatement: the names are bound in turn; a missing one raises.
RECURSIVE bind_from(_, _, _)
bind_from(c, items, module) ==
    IF items = <<>> THEN [c |-> c, sig |-> NoSig]
    ELSE LET item == Head(items)
             alias == IF item.alias # "" THEN item.alias ELSE item.name
         IN  IF item.name \notin DOMAIN module.attrs
             THEN [c |-> c,
                   sig |-> ErrorSig(RuntimeErrorV(<<"Module has no attribute ", item.name>>))]
             ELSE bind_from([c EXCEPT !.frames[1] = Put(@, alias, module.attrs[item.name])],
                            Tail(items), module)

\* The import statement's continuation once module is at hand: st is the
\* stack below the import executor's entry.
imported(c, entry, module, st) ==
    IF entry.stmt.s = "import"
    THEN [c |-> bind_import(c, entry.stmt.items[entry.i], module),
          stack |-> st \o <<[entry EXCEPT !.i = @ + 1]>>, sig |-> NoSig]
    ELSE LET b == bind_from(c, entry.stmt.items, module)
         IN  [c |-> b.c, stack |-> st, sig |-> b.sig]

\* ImportStatement
ExecImport ==
    /\ AtStatement("import")
    /\ Step(Cur, ctx[Cur], Advanced \o <<[k |-> "import", it |-> Cur, stmt |-> Stmt, i |-> 1]>>,
            NoSig)

\* FromImportStatement
ExecFromImport ==
    /\ AtStatement("from")
    /\ Step(Cur, ctx[Cur], Advanced \o <<[k |-> "import", it |-> Cur, stmt |-> Stmt, i |-> 1]>>,
            NoSig)

\* The next module of the statement is imported: from the cache or the
\* catalogue, or by _load_custom_module, which runs the file in a new Interpreter.
ImportStep ==
    /\ AtExecutor("import") /\ sig.k = "none"
    /\ LET path == IF Top.stmt.s = "import" THEN Top.stmt.items[Top.i].module
                   ELSE Top.stmt.module
           r == import_module(ctx[Cur], path)
       IN  IF Top.stmt.s = "import" /\ Top.i > Len(Top.stmt.items)
           THEN Step(Cur, ctx[Cur], Rest, NoSig)
           ELSE CASE r.k = "val" ->
                       LET n == imported(r.c, Top, r.v, Rest) IN Step(Cur, n.c, n.stack, n.sig)
                  [] r.k = "err" -> Step(Cur, ctx[Cur], Rest, ErrorSig(r.v))
                  [] OTHER ->
                       /\ Len(ctx) < MaxInterp
                       /\ ctx' = Append(ctx, ExecutionContext(StdBuiltins))
                       /\ stack' = stack \o <<[k |-> "load", it |-> Len(ctx) + 1,
                                               owner |-> Cur, dotted |-> Dotted(path)],
                                              Block(Len(ctx) + 1, Files[Dotted(path)])>>
                       /\ sig' = NoSig
                       /\ UNCHANGED <<status, cmlog, input>>

\* An exception passes through the import statement.
ImportUnwind ==
    /\ AtExecutor("import") /\ sig.k # "none"
    /\ Step(Cur, ctx[Cur], Rest, sig)

\* _load_custom_module: the child's execute returned; its variables become
\* the module's attributes and the module is cached under its dotted path.
LoadReturn ==
    /\ AtExecutor("load") /\ sig.k = "none"
    /\ LET module == ModuleV(Top.dotted, ctx[Top.it].frames[1])
           below == stack[Len(stack) - 1]
           cached == [ctx[Top.owner] EXCEPT !.modules = Put(@, Top.dotted, module)]
           n == imported(cached, below, module, SubSeq(stack, 1, Len(stack) - 2))
       IN  Step(Top.owner, n.c, n.stack, n.sig)

\* _load_custom_module: the child's execute raised.
LoadUnwind ==
    /\ AtExecutor("load") /\ sig.k # "none"
    /\ Step(Cur, ctx[Cur], Rest, sig)

(***************************************************************************)
(* Initial states: a fresh root Interpreter about to execute a program.    *)
(***************************************************************************)
NoFiles == [n \in {} |-> <<>>]

InitWith(inputs) ==
    /\ input \in inputs
    /\ ctx = <<ExecutionContext(Update(StdBuiltins, PluginBuiltins))>>
    /\ stack = <<Block(1, input.program)>>
    /\ sig = NoSig
    /\ status = "running"
    /\ cmlog = <<>>

\* The root interpreter's global frame, and whether execute has ended.
Globals == ctx[1].frames[1]
Ended == status # "running"

(***************************************************************************)
(* Programs about closures.                                                *)
(*   SET x = v1 / DEF f(): RETURN x / <write x> / r = f()                  *)
(* with the definition at top level or inside a call of an outer function, *)
(* and the call made at top level or from another function's body.         *)
(***************************************************************************)
Values == {1, 2}
Writes == {"none", "set", "assign", "aug"}

WriteStatement(w, name, v) ==
    CASE w = "set" -> <<SetStatement(name, Lit(IntV(v)), 3)>>
      [] w = "assign" -> <<AssignmentStatement(name, Lit(IntV(v)), 3)>>
      [] w = "aug" -> <<AugmentedAssignmentStatement(name, "PLUSEQ", Lit(IntV(v)), 3)>>
      [] OTHER -> <<>>

ClosureTop(bind, w, v1, v2, viaG) ==
    <<IF bind = "set" THEN SetStatement("x", Lit(IntV(v1)), 1)
      ELSE AssignmentStatement("x", Lit(IntV(v1)), 1),
      FunctionDefinition("f", <<>>, <<ReturnStatement(Identifier("x"), 2)>>, FALSE, 2)>>
    \o WriteStatement(w, "x", v2)
    \o (IF viaG
        THEN <<FunctionDefinition("g", <<>>,
                   <<AssignmentStatement("x", Lit(IntV(9)), 5),
                     ReturnStatement(CallExpression(Identifier("f"), <<>>, <<>>), 6)>>, FALSE, 4),
               AssignmentStatement("r", CallExpression(Identifier("g"), <<>>, <<>>), 7)>>
        ELSE <<AssignmentStatement("r", CallExpression(Identifier("f"), <<>>, <<>>), 7)>>)

ClosureInner(shadow, w, v1, v2) ==
    (IF shadow THEN <<SetStatement("y", Lit(IntV(7)), 1)>> ELSE <<>>)
    \o <<FunctionDefinition("outer", <<Parameter("y", PyNone)>>,
            <<FunctionDefinition("f", <<>>, <<ReturnStatement(Identifier("y"), 3)>>, FALSE, 3)>>
            \o WriteStatement(w, "y", v2)
            \o <<ReturnStatement(CallExpression(Identifier("f"), <<>>, <<>>), 5)>>, FALSE, 2),
         AssignmentStatement("r", CallExpression(Identifier("outer"), <<Lit(IntV(v1))>>, <<>>), 6)>>

\* A function that reads a name no frame bound when it was defined.
ClosureUnbound(bound_later) ==
    <<FunctionDefinition("f", <<>>, <<ReturnStatement(Identifier("z"), 1)>>, FALSE, 1)>>
    \o (IF bound_later THEN <<SetStatement("z", Lit(IntV(1)), 2)>> ELSE <<>>)
    \o <<AssignmentStatement("r", CallExpression(Identifier("f"), <<>>, <<>>), 3)>>

ClosureInputs ==
    {[fam |-> "closure", files |-> NoFiles, v1 |-> v1,
      program |-> ClosureTop(bind, w, v1, v2, viaG)] :
        bind \in {"set", "assign"}, w \in Writes, v1 \in Values, v2 \in Values, viaG \in BOOLEAN}
    \cup
    {[fam |-> "closure", files |-> NoFiles, v1 |-> v1,
      program |-> ClosureInner(shadow, w, v1, v2)] :
        shadow \in BOOLEAN, w \in Writes, v1 \in Values, v2 \in Values}
    \cup
    {[fam |-> "unbound", files |-> NoFiles, v1 |-> 1, program |-> ClosureUnbound(b)] :
        b \in BOOLEAN}

InitClosure == InitWith(ClosureInputs)

NextClosure ==
    \/ ExecSet \/ ExecAssignment \/ ExecAugmentedAssignment \/ ExecReturn
    \/ ExecFunctionDefinition \/ CallReturn \/ CallUnwind
    \/ BlockEnd \/ BlockUnwind \/ ExecuteReturn \/ ExecuteRaise

SpecClosure == InitClosure /\ [][NextClosure]_vars

\* C1: a function reads, in every later call, the value a name had when the
\* DEF executed, whatever SET, assignment or augmented assignment wrote to
\* the name in an outer frame between the definition and the call.
C1_ClosureSnapshot ==
    (input.fam = "closure" /\ Ended) =>
        /\ status = "done"
        /\ "r" \in DOMAIN Globals
        /\ ValEq(Globals["r"], IntV(input.v1))

C1_Witness ==
    /\ input.fam = "closure" /\ status = "done"
    /\ "x" \in DOMAIN Globals /\ ~ValEq(Globals["x"], IntV(input.v1))
    /\ "r" \in DOMAIN Globals

(***************************************************************************)
(* Programs about BREAK, CONTINUE and RETURN under nested blocks.          *)
(*   SET i = 0 / WHILE i < 2: i += 1; W(signal); NOTE "after" / NOTE "end" *)
(*   FOR v IN [1, 2]: SET i = v; W(signal); NOTE "after" / NOTE "end"      *)
(*   DEF f(): W(RETURN 5); NOTE "after"; RETURN 6 / r = f() / NOTE "end"   *)
(* where W wraps the signal in up to MaxNest IF, TRY, WITH or TASK blocks. *)
(***************************************************************************)
Str(word) == Lit(StrV(<<word>>))
Num(n) == Lit(IntV(n))
Note(word) == NoteStatement(Str(word), 0)

Wrappers == {"if", "try_typed", "try_untyped", "try_both", "try_finally", "with", "task"}

Wrap(w, body) ==
    CASE w = "if" -> <<IfStatement(Lit(BoolV(TRUE)), body, <<>>, <<>>, 0)>>
      [] w = "try_typed" ->
           <<TryStatement(body, <<ExceptHandler(Identifier("E1"), "", <<PassStatement(0)>>)>>,
                          <<>>, <<>>, 0)>>
      [] w = "try_untyped" ->
           <<TryStatement(body, <<ExceptHandler(PyNone, "", <<PassStatement(0)>>)>>,
                          <<>>, <<>>, 0)>>
      [] w = "try_both" ->
           <<TryStatement(body, <<ExceptHandler(Identifier("E1"), "", <<PassStatement(0)>>),
                                  ExceptHandler(PyNone, "", <<PassStatement(0)>>)>>,
                          <<>>, <<>>, 0)>>
      [] w = "try_finally" -> <<TryStatement(body, <<>>, <<>>, <<PassStatement(0)>>, 0)>>
      [] w = "with" -> <<WithStatement(<<WithItem(Identifier("cm1"), "")>>, body, 0)>>
      [] OTHER -> <<TaskStatement(<<"t">>, body, 0)>>

RECURSIVE WrapAll(_, _)
WrapAll(ws, body) == IF ws = <<>> THEN body ELSE Wrap(Head(ws), WrapAll(Tail(ws), body))

Nestings == UNION {[1..n -> Wrappers] : n \in 1..MaxNest}

SignalStatement(kind) ==
    CASE kind = "break" -> BreakStatement(0)
      [] kind = "continue" -> ContinueStatement(0)
      [] OTHER -> ReturnStatement(Num(5), 0)

SignalProgram(kind, loop, ws) ==
    LET inner == WrapAll(ws, <<SignalStatement(kind)>>) \o <<Note("after")>>
    IN  CASE loop = "none" -> inner
          [] kind = "return" ->
               <<FunctionDefinition("f", <<>>, inner \o <<ReturnStatement(Num(6), 0)>>, FALSE, 0),
                 AssignmentStatement("r", CallExpression(Identifier("f"), <<>>, <<>>), 0),
                 Note("end")>>
          [] loop = "while" ->
               <<SetStatement("i", Num(0), 0),
                 WhileStatement(BinaryExpression(Identifier("i"), "LT", Num(2)),
                                <<AugmentedAssignmentStatement("i", "PLUSEQ", Num(1), 0)>> \o inner,
                                <<>>, 0),
                 Note("end")>>
          [] OTHER ->
               <<ForStatement("v", ListExpression(<<Num(1), Num(2)>>),
                              <<SetStatement("i", Identifier("v"), 0)>> \o inner, 0),
                 Note("end")>>

SignalInputs ==
    {[fam |-> IF loop = "none" THEN "stray" ELSE "signal", files |-> NoFiles,
      kind |-> kind, ws |-> ws, program |-> SignalProgram(kind, loop, ws)] :
        kind \in {"break", "continue", "return"}, loop \in {"while", "for", "none"},
        ws \in Nestings}

InitSignal == InitWith(SignalInputs)

NextSignal ==
    \/ ExecSet \/ ExecAssignment \/ ExecAugmentedAssignment \/ ExecReturn
    \/ ExecFunctionDefinition \/ CallReturn
    \/ ExecBreak \/ ExecContinue \/ ExecPass \/ ExecNote
    \/ ExecIf \/ ExecWhile \/ WhileTest \/ WhileCatch \/ ExecFor \/ ForNext \/ ForCatch
    \/ ExecTry \/ TryBodyEnd \/ TryExcept \/ TryClauseExit \/ TryFinallyExit
    \/ ExecWith \/ WithExit \/ ExecTask \/ TaskExit
    \/ BlockEnd \/ BlockUnwind \/ ExecuteReturn \/ ExecuteRaise

SpecSignal == InitSignal /\ [][NextSignal]_vars

\* C2: a BREAK ends the nearest enclosing loop, a CONTINUE moves it to its
\* next iteration and a RETURN ends the nearest enclosing call with its
\* value, under every nesting of IF, TRY (typed or untyped EXCEPT clauses),
\* WITH and TASK blocks: the statement after the blocks is never run, the
\* loop variable ends at 1 after BREAK and at 2 after CONTINUE, and the call
\* yields 5.
C2_SignalReachesTarget ==
    (input.fam = "signal" /\ Ended) =>
        /\ status = "done"
        /\ ctx[1].notes = <<<<"end">>>>
        /\ input.kind = "break" => ValEq(Globals["i"], IntV(1))
        /\ input.kind = "continue" => ValEq(Globals["i"], IntV(2))
        /\ input.kind = "return" => "r" \in DOMAIN Globals /\ ValEq(Globals["r"], IntV(5))

(***************************************************************************)
(* Programs about WHILE.                                                   *)
(*   SET i = 0                                                             *)
(*   WHILE i < n: i += 1; [IF i == c:] CONTINUE; [IF i == b:] BREAK;       *)
(*                NOTE "{i}"                                               *)
(* with the signal statements bare or inside TRY: ... EXCEPT: PASS.        *)
(*   ELSE: NOTE "else"                                                     *)
(*   NOTE "end"                                                            *)
(***************************************************************************)
MaxIter == 3

\* When a signal statement of the body fires: never, in iteration at, or always.
Firings ==
    {[mode |-> "never", at |-> 0], [mode |-> "always", at |-> 0]}
    \cup {[mode |-> "at", at |-> k] : k \in 1..MaxIter}

Guarded(f, statement, inTry) ==
    LET guarded ==
            CASE f.mode = "never" -> <<>>
              [] f.mode = "always" -> <<statement>>
              [] OTHER -> <<IfStatement(BinaryExpression(Identifier("i"), "EQ", Num(f.at)),
                                        <<statement>>, <<>>, <<>>, 0)>>
    IN  IF inTry /\ guarded # <<>> THEN Wrap("try_untyped", guarded) ELSE guarded

WhileProgram(n, c, b, hasElse, inTry) ==
    <<SetStatement("i", Num(0), 0),
      WhileStatement(BinaryExpression(Identifier("i"), "LT", Num(n)),
                     <<AugmentedAssignmentStatement("i", "PLUSEQ", Num(1), 0)>>
                     \o Guarded(c, ContinueStatement(0), inTry)
                     \o Guarded(b, BreakStatement(0), inTry)
                     \o <<NoteStatement(Lit(StrV(<<"{", "i", "}">>)), 0)>>,
                     IF hasElse THEN <<Note("else")>> ELSE <<>>, 0),
      Note("end")>>

\* A loop whose condition raises.
WhileFailing ==
    <<WhileStatement(BinaryExpression(Identifier("unbound"), "LT", Num(1)),
                     <<Note("body")>>, <<Note("else")>>, 0)>>

WhileInputs ==
    {[fam |-> "while", files |-> NoFiles, n |-> n, c |-> c, b |-> b, hasElse |-> hasElse,
      inTry |-> inTry, program |-> WhileProgram(n, c, b, hasElse, inTry)] :
        n \in 0..MaxIter, c \in Firings, b \in Firings, hasElse \in BOOLEAN,
        inTry \in BOOLEAN}
    \cup {[fam |-> "whileraise", files |-> NoFiles, n |-> 0, c |-> [mode |-> "never", at |-> 0],
           b |-> [mode |-> "never", at |-> 0], hasElse |-> TRUE, inTry |-> FALSE,
           program |-> WhileFailing]}

InitWhile == InitWith(WhileInputs)

NextWhile ==
    \/ ExecSet \/ ExecAugmentedAssignment \/ ExecIf \/ ExecNote
    \/ ExecBreak \/ ExecContinue \/ ExecPass
    \/ ExecTry \/ TryBodyEnd \/ TryExcept \/ TryClauseExit
    \/ ExecWhile \/ WhileTest \/ WhileElseEnd \/ WhileCatch
    \/ BlockEnd \/ BlockUnwind \/ ExecuteReturn \/ ExecuteRaise

SpecWhile == InitWhile /\ [][NextWhile]_vars

Fires(f, i) == f.mode = "always" \/ (f.mode = "at" /\ f.at = i)

\* What the loop of WhileProgram is to leave behind, from the test of the
\* condition with the counter at i on: the notes, and the final counter.
RECURSIVE WhileOutcome(_, _)
WhileOutcome(p, i) ==
    IF ~(i < p.n)
    THEN [notes |-> IF p.hasElse THEN <<<<"else">>>> ELSE <<>>, i |-> i, broke |-> FALSE]
    ELSE IF Fires(p.c, i + 1) THEN WhileOutcome(p, i + 1)
    ELSE IF Fires(p.b, i + 1) THEN [notes |-> <<>>, i |-> i + 1, broke |-> TRUE]
    ELSE LET rest == WhileOutcome(p, i + 1)
         IN  [rest EXCEPT !.notes = <<<<ToString(i + 1)>>>> \o @]

\* C8: in a WHILE loop a CONTINUE skips the rest of the iteration and the
\* condition is tested again, a BREAK stops the loop with exactly the side
\* effects made before it, and the ELSE body runs exactly when the loop
\* ended on a false condition, never after a BREAK.
C8_WhileSignals ==
    (input.fam = "while" /\ Ended) =>
        /\ status = "done"
        /\ ctx[1].notes = WhileOutcome(input, 0).notes \o <<<<"end">>>>
        /\ ValEq(Globals["i"], IntV(WhileOutcome(input, 0).i))

\* The same, for the loops whose signal statements are not inside a TRY.
WhileSignalsOutsideTry == ~input.inTry => C8_WhileSignals

(***************************************************************************)
(* Programs about TRY.                                                     *)
(*   TRY: RAISE X("m")  EXCEPT T1: NOTE "h1"  EXCEPT T2: NOTE "h2" ...     *)
(*   NOTE "end"                                                            *)
(* for every raised class X and every list of up to MaxHandlers clauses.   *)
(***************************************************************************)
MaxHandlers == 2

\* What a program raises: an instance of a registered exception class, or
\* the runtime error of reading an unbound name.
Raised == {"E1", "E1a", "E2", "RuntimeError"}

\* The type expression of an EXCEPT clause.
ClauseTypes == {"untyped", "E1", "E1a", "E2", "E1_or_E2", "E2_or_5", "5"}

ClauseType(t) ==
    CASE t = "untyped" -> PyNone
      [] t = "E1_or_E2" -> TupleExpression(<<Identifier("E1"), Identifier("E2")>>)
      [] t = "E2_or_5" -> TupleExpression(<<Identifier("E2"), Num(5)>>)
      [] t = "5" -> Num(5)
      [] OTHER -> Identifier(t)

RaiseOf(x) ==
    IF x = "RuntimeError" THEN ExpressionStatement(Identifier("unbound"), 0)
    ELSE RaiseStatement(CallExpression(Identifier(x), <<Str("m")>>, <<>>), 0)

HandlerNote(k) == Note(IF k = 1 THEN "h1" ELSE IF k = 2 THEN "h2" ELSE "h3")

ExceptProgram(x, ts) ==
    <<TryStatement(<<RaiseOf(x)>>,
                   [k \in DOMAIN ts |-> ExceptHandler(ClauseType(ts[k]), "", <<HandlerNote(k)>>)],
                   <<>>, <<>>, 0),
      Note("end")>>

ExceptInputs ==
    {[fam |-> "except", files |-> NoFiles, x |-> x, ts |-> ts, program |-> ExceptProgram(x, ts)] :
        x \in Raised, ts \in UNION {[1..n -> ClauseTypes] : n \in 0..MaxHandlers}}

(***************************************************************************)
(* Programs about FINALLY: one TRY statement, executed once, at top level, *)
(* in the only iteration of a FOR loop, or in the body of a function.      *)
(*   TRY: <body>  EXCEPT <T>: <handler>  ELSE: <else>  FINALLY: NOTE "fin" *)
(*   NOTE "end"                                                            *)
(***************************************************************************)
Bodies == {"pass", "raise", "break", "continue", "return"}
Handlers == {"none", "E1_note", "E1_raise", "E2_note", "untyped_note"}
Elses == {"none", "note", "raise"}
Places == {"top", "loop", "function"}

FinallyTry(body, handler, else) ==
    TryStatement(
        CASE body = "pass" -> <<PassStatement(0)>>
          [] body = "raise" -> <<RaiseOf("E1")>>
          [] body = "break" -> <<BreakStatement(0)>>
          [] body = "continue" -> <<ContinueStatement(0)>>
          [] OTHER -> <<ReturnStatement(Num(5), 0)>>,
        CASE handler = "none" -> <<>>
          [] handler = "E1_note" -> <<ExceptHandler(Identifier("E1"), "", <<Note("h")>>)>>
          [] handler = "E1_raise" -> <<ExceptHandler(Identifier("E1"), "", <<RaiseOf("E2")>>)>>
          [] handler = "E2_note" -> <<ExceptHandler(Identifier("E2"), "", <<Note("h")>>)>>
          [] OTHER -> <<ExceptHandler(PyNone, "", <<Note("h")>>)>>,
        CASE else = "none" -> <<>>
          [] else = "note" -> <<Note("else")>>
          [] OTHER -> <<RaiseOf("E2")>>,
        <<Note("fin")>>, 0)

FinallyProgram(body, handler, else, place) ==
    LET try == <<FinallyTry(body, handler, else), Note("after")>>
    IN  CASE place = "top" -> try \o <<Note("end")>>
          [] place = "loop" ->
               <<ForStatement("v", ListExpression(<<Num(1)>>), try, 0), Note("end")>>
          [] OTHER ->
               <<FunctionDefinition("f", <<>>, try, FALSE, 0),
                 AssignmentStatement("r", CallExpression(Identifier("f"), <<>>, <<>>), 0),
                 Note("end")>>

FinallyCases ==
    {t \in Bodies \X Handlers \X Elses \X Places :
        /\ t[1] \in {"break", "continue"} => t[4] = "loop"
        /\ t[1] = "return" => t[4] = "function"}

FinallyInputs ==
    {[fam |-> "finally", files |-> NoFiles, body |-> t[1], handler |-> t[2], else |-> t[3],
      place |-> t[4], program |-> FinallyProgram(t[1], t[2], t[3], t[4])] : t \in FinallyCases}

InitTry == InitWith(ExceptInputs \cup FinallyInputs)

NextTry ==
    \/ ExecAssignment \/ ExecExpression \/ ExecReturn \/ ExecRaise
    \/ ExecFunctionDefinition \/ CallReturn \/ CallUnwind
    \/ ExecBreak \/ ExecContinue \/ ExecPass \/ ExecNote
    \/ ExecFor \/ ForNext \/ ForCatch
    \/ ExecTry \/ TryBodyEnd \/ TryExcept \/ TryClauseExit \/ TryFinallyExit
    \/ BlockEnd \/ BlockUnwind \/ ExecuteReturn \/ ExecuteRaise

SpecTry == InitTry /\ [][NextTry]_vars

\* Whether a clause of type t takes an instance of class x.
ClauseTakes(t, x) ==
    CASE t = "untyped" -> TRUE
      [] t = "E1_or_E2" -> "E1" \in Ancestors(x) \/ "E2" \in Ancestors(x)
      [] t = "E2_or_5" -> "E2" \in Ancestors(x)
      [] t = "5" -> FALSE
      [] OTHER -> t \in Ancestors(x)

\* The first clause of ts that takes x; 0 when none does.
FirstTaking(ts, x) ==
    IF \E k \in DOMAIN ts : ClauseTakes(ts[k], x)
    THEN CHOOSE k \in DOMAIN ts :
             ClauseTakes(ts[k], x) /\ \A j \in 1..(k - 1) : ~ClauseTakes(ts[j], x)
    ELSE 0

\* C3: when a TRY body raises, the EXCEPT clauses are tried in source order
\* and the body of the first matching clause, and of no other, is run (a
\* clause without a type matches anything, a typed clause matches instances
\* of its type or of a member of its tuple of types); when no clause
\* matches, the error leaves the TRY statement.
C3_FirstMatchingClause ==
    (input.fam = "except" /\ Ended) =>
        LET k == FirstTaking(input.ts, input.x)
        IN  IF k = 0
            THEN /\ status = "failed"
                 /\ sig.k = "error" /\ sig.exc.of = input.x
                 /\ ctx[1].notes = <<>>
            ELSE /\ status = "done"
                 /\ ctx[1].notes = <<HandlerNote(k).message.v.s, <<"end">>>>

C3_Witness ==
    /\ input.fam = "except" /\ status = "done"
    /\ input.x = "E1a" /\ Len(input.ts) = 2
    /\ ~ClauseTakes(input.ts[1], input.x) /\ input.ts[2] = "E1_or_E2"
    /\ ctx[1].notes = <<<<"h2">>, <<"end">>>>

RECURSIVE Count(_, _)
Count(word, notes) ==
    IF notes = <<>> THEN 0
    ELSE (IF Head(notes) = <<word>> THEN 1 ELSE 0) + Count(word, Tail(notes))

Before(a, b, notes) ==
    \A i, j \in DOMAIN notes : (notes[i] = <<a>> /\ notes[j] = <<b>>) => i < j

\* Whether the TRY statement is being executed or has been left.
TryEntered == \E i \in DOMAIN stack : stack[i].k = "try"
TryLeft ==
    /\ ~TryEntered
    /\ \/ Ended \/ sig.k # "none"
       \/ \E i \in DOMAIN ctx[1].notes : ctx[1].notes[i] \in {<<"after">>, <<"end">>}

\* C4: the FINALLY body of a TRY statement runs exactly once on every way
\* out of the statement: after the body and the ELSE body completed, after
\* a handler ran, before an unmatched error propagates, after an error
\* raised inside a handler or the ELSE body, and when a BREAK, CONTINUE or
\* RETURN leaves the statement.
C4_FinallyOnce ==
    input.fam = "finally" =>
        /\ Count("fin", ctx[1].notes) <= 1
        /\ TryLeft => Count("fin", ctx[1].notes) = 1
        /\ Before("else", "fin", ctx[1].notes)
        /\ Before("h", "fin", ctx[1].notes)
        /\ Before("fin", "after", ctx[1].notes)
        /\ Before("fin", "end", ctx[1].notes)

C4_Witness ==
    /\ input.fam = "finally" /\ status = "failed"
    /\ input.body = "raise" /\ input.handler = "E1_raise"
    /\ sig.k = "error" /\ sig.exc.of = "E2"
    /\ Count("fin", ctx[1].notes) = 1

(***************************************************************************)
(* Programs about TASK and the domain statements.                          *)
(*   A1                                                                    *)
(*   TASK "t1":                                                            *)
(*       A2                                                                *)
(*       <TASK "t2": A3 ...>  nested directly, left by an error that a TRY *)
(*                            catches, run in a loop it leaves by BREAK,   *)
(*                            run in a called function, or left by an     *)
(*                            error nothing catches                        *)
(*       A4                                                                *)
(*   A5                                                                    *)
(* where A1..A5 are domain statements on lines 1..5, of kinds that rotate  *)
(* through EMBED, PORTSCAN, HTTP, FUZZ, RUN, INPUT, OUTPUT.                *)
(***************************************************************************)
DomainKinds == <<"embed", "portscan", "http", "fuzz", "run", "input", "output">>

DomainStatement(kind, line) ==
    CASE kind = "embed" -> EmbedStatement("python", "a", Str("code"), line)
      [] kind = "portscan" -> PortScanStatement(ListExpression(<<Num(80)>>), PyNone, line)
      [] kind = "http" -> HttpRequestStatement("GET", Str("u"), line)
      [] kind = "fuzz" -> FuzzStatement(Str("u"), "", ListExpression(<<Str("x")>>), line)
      [] kind = "run" -> RunStatement(Str("cmd"), line)
      [] kind = "input" -> InputStatement(PyNone, "answer", line)
      [] OTHER -> OutputStatement(Str("done"), line)

Nestings2 == {"plain", "caught", "loop", "call", "uncaught"}

TaskProgram(how, offset) ==
    LET A(i) == DomainStatement(DomainKinds[((i + offset) % Len(DomainKinds)) + 1], i)
        t2(exit) == TaskStatement(<<"t2">>, <<A(3)>> \o exit, 0)
        inner ==
            CASE how = "plain" -> <<t2(<<>>)>>
              [] how = "caught" -> Wrap("try_untyped", <<t2(<<RaiseOf("E1")>>)>>)
              [] how = "loop" ->
                   <<ForStatement("v", ListExpression(<<Num(1), Num(2)>>),
                                  <<t2(<<BreakStatement(0)>>)>>, 0)>>
              [] how = "call" ->
                   <<AssignmentStatement("r", CallExpression(Identifier("g"), <<>>, <<>>), 0)>>
              [] OTHER -> <<t2(<<RaiseOf("E1")>>)>>
    IN  <<A(1),
          FunctionDefinition("g", <<>>, <<t2(<<>>), A(4), ReturnStatement(Num(1), 0)>>, FALSE, 0),
          TaskStatement(<<"t1">>, <<A(2)>> \o inner \o <<A(4)>>, 0),
          A(5)>>

TaskInputs ==
    {[fam |-> "task", files |-> NoFiles, how |-> how, program |-> TaskProgram(how, offset)] :
        how \in Nestings2, offset \in 0..(Len(DomainKinds) - 1)}

InitTask == InitWith(TaskInputs)

NextTask ==
    \/ ExecEmbed \/ ExecPortScan \/ ExecHttp \/ ExecFuzz \/ ExecRun \/ ExecInput \/ ExecOutput
    \/ ExecTask \/ TaskExit
    \/ ExecTry \/ TryExcept \/ TryClauseExit \/ ExecPass \/ ExecRaise
    \/ ExecFor \/ ForNext \/ ForCatch \/ ExecBreak
    \/ ExecFunctionDefinition \/ ExecAssignment \/ ExecReturn \/ CallReturn
    \/ BlockEnd \/ BlockUnwind \/ ExecuteReturn \/ ExecuteRaise

SpecTask == InitTask /\ [][NextTask]_vars

\* The action lists of a context: standalone_actions, then each task's steps.
ActionLists(c) == <<c.standalone_actions>> \o [i \in DOMAIN c.tasks |-> c.tasks[i].steps]

\* The list an action belongs in: the steps of the innermost TASK whose
\* body is executing (position in ActionLists), or standalone_actions.
InnermostList ==
    LET executing == {i \in DOMAIN stack : stack[i].k = "task" /\ stack[i].it = 1}
    IN  IF executing = {} THEN 1 ELSE stack[SetMax(executing)].task + 1

AtDomainStatement ==
    \E kind \in {DomainKinds[i] : i \in DOMAIN DomainKinds} : AtStatement(kind)

IsPrefix(a, b) == Len(a) <= Len(b) /\ SubSeq(b, 1, Len(a)) = a

\* C5: every Action of a domain statement is appended to exactly one list,
\* the steps of the innermost TASK whose body is executing or, when no TASK
\* body is executing, standalone_actions; no list changes otherwise, so each
\* list holds its Actions in the order the statements were executed.
C5_ActionPlacement ==
    [][LET before == ActionLists(ctx[1])
           after == ActionLists(ctx'[1])
           statement == AtDomainStatement /\ sig'.k = "none"
       IN  /\ \A i \in DOMAIN before : IsPrefix(before[i], after[i])
           /\ \A i \in DOMAIN after : i \notin DOMAIN before => after[i] = <<>>
           /\ ~statement => \A i \in DOMAIN before : after[i] = before[i]
           /\ statement =>
                  /\ Len(after[InnermostList]) = Len(before[InnermostList]) + 1
                  /\ LET action == after[InnermostList][Len(after[InnermostList])]
                     IN  action.kind = Stmt.s /\ action.line = Stmt.line
                  /\ \A i \in DOMAIN before : i # InnermostList => after[i] = before[i]
      ]_vars

C5_Witness ==
    /\ input.fam = "task" /\ status = "done" /\ input.how = "caught"
    /\ Len(ctx[1].tasks) = 2
    /\ Len(ctx[1].tasks[1].steps) = 2 /\ Len(ctx[1].tasks[2].steps) = 1
    /\ Len(ctx[1].standalone_actions) = 2

(***************************************************************************)
(* Programs about ASYNC DEF and AWAIT.                                     *)
(*   ASYNC DEF f(a): NOTE "body"; <RETURN a | nothing | RAISE E1>          *)
(*   SET p = f(v) / NOTE "called" / r = AWAIT p / NOTE "awaited"           *)
(* and the variants: AWAIT applied to the call directly, a deferred call   *)
(* that is never awaited or awaited twice, a keyword argument, an ASYNC    *)
(* DEF awaiting another one, and a deferred call made by a plain function. *)
(***************************************************************************)
Returns == {"value", "none", "raise"}
Awaitings == {"later", "direct", "never", "twice", "kw", "nested", "via"}

AsyncProgram(ret, how, v) ==
    LET Call(name, arg) == CallExpression(Identifier(name), <<arg>>, <<>>)
        f == FunctionDefinition("f", <<Parameter("a", PyNone)>>,
                 <<Note("body")>> \o
                 (CASE ret = "value" -> <<ReturnStatement(Identifier("a"), 2)>>
                    [] ret = "none" -> <<>>
                    [] OTHER -> <<RaiseOf("E1")>>), TRUE, 1)
        g == FunctionDefinition("g", <<Parameter("b", PyNone)>>,
                 <<Note("outer"),
                   ReturnStatement(AwaitExpression(Call("f", Identifier("b"))), 4)>>, TRUE, 3)
        mk == FunctionDefinition("mk", <<>>,
                 <<SetStatement("p", Call("f", Num(v)), 3), Note("made"),
                   ReturnStatement(Identifier("p"), 4)>>, FALSE, 3)
        awaitP == <<AssignmentStatement("r", AwaitExpression(Identifier("p")), 7),
                    Note("awaited")>>
    IN  <<f>> \o
        CASE how = "later" -> <<SetStatement("p", Call("f", Num(v)), 5), Note("called")>> \o awaitP
          [] how = "direct" ->
               <<AssignmentStatement("r", AwaitExpression(Call("f", Num(v))), 7),
                 Note("awaited")>>
          [] how = "never" -> <<SetStatement("p", Call("f", Num(v)), 5), Note("called")>>
          [] how = "twice" ->
               <<SetStatement("p", Call("f", Num(v)), 5), Note("called")>> \o awaitP
               \o <<AssignmentStatement("r2", AwaitExpression(Identifier("p")), 9),
                    Note("again")>>
          [] how = "kw" ->
               <<SetStatement("p", CallExpression(Identifier("f"), <<>>, <<<<"a", Num(v)>>>>), 5),
                 Note("called")>> \o awaitP
          [] how = "nested" ->
               <<g, SetStatement("p", Call("g", Num(v)), 5), Note("called")>> \o awaitP
          [] OTHER ->
               <<mk, AssignmentStatement("r", AwaitExpression(CallExpression(
                         Identifier("mk"), <<>>, <<>>)), 7),
                 Note("awaited")>>

\* AWAIT applied to a value that is not a deferred call.
AwaitValue(v) == <<AssignmentStatement("r", AwaitExpression(Num(v)), 1)>>

AsyncInputs ==
    {[fam |-> "async", files |-> NoFiles, ret |-> ret, how |-> how, v |-> v,
      program |-> AsyncProgram(ret, how, v)] :
        ret \in Returns, how \in Awaitings, v \in Values}
    \cup
    {[fam |-> "await_value", files |-> NoFiles, ret |-> "none", how |-> "direct", v |-> v,
      program |-> AwaitValue(v)] : v \in Values}

InitAsync == InitWith(AsyncInputs)

NextAsync ==
    \/ ExecFunctionDefinition \/ ExecSet \/ ExecAssignment \/ ExecNote
    \/ ExecReturn \/ ExecRaise \/ CallReturn \/ CallUnwind
    \/ BlockEnd \/ BlockUnwind \/ ExecuteReturn \/ ExecuteRaise

SpecAsync == InitAsync /\ [][NextAsync]_vars

\* The notes of a whole run whose bodies all return.
AsyncNotes(how) ==
    CASE how = "later" -> <<<<"called">>, <<"body">>, <<"awaited">>>>
      [] how = "kw" -> <<<<"called">>, <<"body">>, <<"awaited">>>>
      [] how = "direct" -> <<<<"body">>, <<"awaited">>>>
      [] how = "never" -> <<<<"called">>>>
      [] how = "twice" ->
           <<<<"called">>, <<"body">>, <<"awaited">>, <<"body">>, <<"again">>>>
      [] how = "nested" -> <<<<"called">>, <<"outer">>, <<"body">>, <<"awaited">>>>
      [] OTHER -> <<<<"made">>, <<"body">>, <<"awaited">>>>

\* The notes up to the first execution of the body, which raises.
RECURSIVE UpToBody(_)
UpToBody(notes) ==
    IF notes = <<>> THEN <<>>
    ELSE IF Head(notes) = <<"body">> THEN <<Head(notes)>>
    ELSE <<Head(notes)>> \o UpToBody(Tail(notes))

\* The deferred call of the program: the awaited function and its argument.
HoldsCall(p) ==
    /\ p.t = "pending"
    /\ p.function.t = "fn" /\ p.function.is_async
    /\ p.function.name = (IF input.how = "nested" THEN "g" ELSE "f")
    /\ IF input.how = "kw"
       THEN p.args = <<>> /\ DOMAIN p.kwargs = {"a"} /\ ValEq(p.kwargs["a"], IntV(input.v))
       ELSE p.args = <<IntV(input.v)>> /\ DOMAIN p.kwargs = {}

\* C6: calling an ASYNC DEF function runs no statement of its body and
\* yields a deferred call holding the function and its arguments; the body
\* runs only when AWAIT is applied to the deferred call, at that point, and
\* the AWAIT expression has the body's RETURN value, NONE when the body
\* returns nothing.
C6_AsyncDeferred ==
    input.fam = "async" =>
        LET raises == input.ret = "raise" /\ input.how # "never"
            notes == IF raises THEN UpToBody(AsyncNotes(input.how))
                     ELSE AsyncNotes(input.how)
        IN  /\ IsPrefix(ctx[1].notes, notes)
            /\ "p" \in DOMAIN Globals => HoldsCall(Globals["p"])
            /\ Ended =>
                 /\ ctx[1].notes = notes
                 /\ status = (IF raises THEN "failed" ELSE "done")
                 /\ raises => sig.k = "error" /\ sig.exc.of = "E1"
                 /\ (~raises /\ input.how # "never") =>
                        /\ "r" \in DOMAIN Globals
                        /\ Globals["r"] = (IF input.ret = "value" THEN IntV(input.v) ELSE NoneV)
                 /\ (~raises /\ input.how = "twice") =>
                        "r2" \in DOMAIN Globals /\ Globals["r2"] = Globals["r"]

C6_Witness ==
    /\ input.fam = "async" /\ status = "done"
    /\ input.how = "later" /\ input.ret = "value"
    /\ HoldsCall(Globals["p"])
    /\ Globals["r"] = IntV(input.v)
    /\ ctx[1].notes = <<<<"called">>, <<"body">>, <<"awaited">>>>

(***************************************************************************)
(* Programs about parameter binding.                                       *)
(*   DEF f(a<=d1>, b<=d2>): NOTE "body"; RETURN [a, b]                      *)
(*   r = f(<0..3 positional arguments>, <keyword arguments among a, b, c>) *)
(* and the same with f bound to  lambda a<=d1>, b<=d2>: [a, b].  Each      *)
(* default is absent, the literal NONE, or the literal 7.                  *)
(***************************************************************************)
Declared == {"absent", "NONE", "7"}
Keywords == {"a", "b", "c"}
MaxArgs == 3

\* Parser._parse_function / the LAMBDA prefix: the Parameter node of a
\* declaration; a literal is the host value the lexer gives its keyword.
parse_parameter(name, declared) ==
    Parameter(name, CASE declared = "absent" -> PyNone
                      [] declared = "NONE" -> Lit(NoneV)
                      [] OTHER -> Lit(IntV(7)))

PositionalValue(i) == IntV(10 * i)
KeywordValue(name) == IntV(CASE name = "a" -> 40 [] name = "b" -> 50 [] OTHER -> 60)

RECURSIVE KeywordArguments(_)
KeywordArguments(names) ==
    IF names = {} THEN <<>>
    ELSE LET name == CHOOSE n \in names : TRUE
         IN  <<<<name, Lit(KeywordValue(name))>>>> \o KeywordArguments(names \ {name})

BindingProgram(callee, d1, d2, n, kws) ==
    LET parameters == <<parse_parameter("a", d1), parse_parameter("b", d2)>>
        both == ListExpression(<<Identifier("a"), Identifier("b")>>)
        call == CallExpression(Identifier("f"), [i \in 1..n |-> Lit(PositionalValue(i))],
                               KeywordArguments(kws))
    IN  <<IF callee = "def"
          THEN FunctionDefinition("f", parameters,
                   <<Note("body"), ReturnStatement(both, 2)>>, FALSE, 1)
          ELSE SetStatement("f", LambdaExpression(parameters, both), 1),
          AssignmentStatement("r", call, 3),
          Note("end")>>

BindingInputs ==
    {[fam |-> "binding", files |-> NoFiles, callee |-> callee,
      declared |-> [a |-> d1, b |-> d2], n |-> n, kws |-> kws,
      program |-> BindingProgram(callee, d1, d2, n, kws)] :
        callee \in {"def", "lambda"}, d1 \in Declared, d2 \in Declared,
        n \in 0..MaxArgs, kws \in SUBSET Keywords}

InitBinding == InitWith(BindingInputs)

NextBinding ==
    \/ ExecFunctionDefinition \/ ExecSet \/ ExecAssignment \/ ExecNote
    \/ ExecReturn \/ CallReturn
    \/ BlockEnd \/ BlockUnwind \/ ExecuteReturn \/ ExecuteRaise

SpecBinding == InitBinding /\ [][NextBinding]_vars

\* What the call binds the i-th declared parameter to: a record with the
\* value, or bound = FALSE when the parameter gets none.
Binding(i, name) ==
    IF i <= input.n THEN [bound |-> TRUE, v |-> PositionalValue(i)]
    ELSE IF name \in input.kws THEN [bound |-> TRUE, v |-> KeywordValue(name)]
    ELSE IF input.declared[name] = "7" THEN [bound |-> TRUE, v |-> IntV(7)]
    ELSE IF input.declared[name] = "NONE" THEN [bound |-> TRUE, v |-> NoneV]
    ELSE [bound |-> FALSE, v |-> NoneV]

\* Arguments no parameter uses: positional ones beyond the parameters, and
\* keywords that name no parameter or one a positional argument filled.
Leftover ==
    \/ input.n > 2
    \/ "c" \in input.kws
    \/ "a" \in input.kws /\ input.n >= 1
    \/ "b" \in input.kws /\ input.n >= 2

BindingError == ~Binding(1, "a").bound \/ ~Binding(2, "b").bound \/ Leftover

\* C7: a call binds each parameter, in declaration order, to the next
\* unused positional argument, else to the keyword argument of its name,
\* else to its declared default (a declared NONE included); a parameter
\* that gets none of these, or an argument left unused, makes the call an
\* error raised before any body statement runs, with no frame left pushed.
C7_ParameterBinding ==
    (input.fam = "binding" /\ Ended) =>
        /\ Len(ctx[1].frames) = 1 /\ ctx[1].function_stack = <<>>
        /\ IF BindingError
           THEN /\ status = "failed"
                /\ sig.k = "error" /\ sig.exc.of = "RuntimeError"
                /\ ctx[1].notes = <<>>
                /\ "r" \notin DOMAIN Globals
           ELSE /\ status = "done"
                /\ "r" \in DOMAIN Globals
                /\ Globals["r"] = ListV(<<Binding(1, "a").v, Binding(2, "b").v>>)

\* The same for the calls that need no parameter's declared NONE default.
NeedsNoneDefault ==
    \/ input.declared["a"] = "NONE" /\ input.n < 1 /\ "a" \notin input.kws
    \/ input.declared["b"] = "NONE" /\ input.n < 2 /\ "b" \notin input.kws

BindingWithoutNoneDefault == ~NeedsNoneDefault => C7_ParameterBinding

(***************************************************************************)
(* Programs about IMPORT and FROM ... IMPORT of user modules.              *)
(*   m.sapl:         SET a = 1 / DEF g(): RETURN a / SET helper = 5        *)
(*   pkg/m.sapl:     IMPORT pkg.other AS o / SET a = 1 / DEF g(): RETURN a *)
(*   pkg/other.sapl: SET z = 3                                             *)
(*   bad.sapl:       SET a = 1 / unbound                                   *)
(* The importer optionally binds a or g itself first, executes one import  *)
(* statement, and then optionally uses what it imported or reads a.        *)
(***************************************************************************)
DefG == FunctionDefinition("g", <<>>, <<ReturnStatement(Identifier("a"), 2)>>, FALSE, 2)

ModuleFiles ==
    [n \in {"m", "pkg.m", "pkg.other", "bad"} |->
        CASE n = "m" -> <<SetStatement("a", Num(1), 1), DefG, SetStatement("helper", Num(5), 3)>>
          [] n = "pkg.m" ->
               <<ImportStatement(<<ImportItem(<<"pkg", "other">>, "o")>>, 1),
                 SetStatement("a", Num(1), 1), DefG>>
          [] n = "pkg.other" -> <<SetStatement("z", Num(3), 1)>>
          [] OTHER -> <<SetStatement("a", Num(1), 1), RaiseOf("RuntimeError")>>]

\* One import statement, what it is to bind (alias |-> what), and an
\* expression that uses the first thing it binds.
ImportCase(statement, binds, use) == [statement |-> statement, binds |-> binds, use |-> use]
CallG(al) == CallExpression(AttributeReference(Identifier(al), "g"), <<>>, <<>>)
Binds1(al, what) == [n \in {al} |-> what]
Binds2(al1, what1, al2, what2) == [n \in {al1, al2} |-> IF n = al1 THEN what1 ELSE what2]

ImportCases ==
    {ImportCase(ImportStatement(<<ImportItem(<<"m">>, "")>>, 5), Binds1("m", "mod:m"), CallG("m")),
     ImportCase(ImportStatement(<<ImportItem(<<"m">>, "x")>>, 5), Binds1("x", "mod:m"), CallG("x")),
     ImportCase(ImportStatement(<<ImportItem(<<"pkg", "m">>, "")>>, 5),
                Binds1("m", "mod:pkg.m"), CallG("m")),
     ImportCase(ImportStatement(<<ImportItem(<<"pkg", "m">>, "x")>>, 5),
                Binds1("x", "mod:pkg.m"), CallG("x")),
     ImportCase(ImportStatement(<<ImportItem(<<"m">>, "x"), ImportItem(<<"m">>, "y")>>, 5),
                Binds2("x", "mod:m", "y", "mod:m"), CallG("y")),
     ImportCase(ImportStatement(<<ImportItem(<<"m">>, ""), ImportItem(<<"asyncio">>, "")>>, 5),
                Binds2("m", "mod:m", "asyncio", "mod:asyncio"), CallG("m"))}

FromCases ==
    {ImportCase(FromImportStatement(<<"m">>, <<FromImportItem("a", "")>>, 5),
                Binds1("a", "a"), BinaryExpression(Identifier("a"), "STAR", Num(1))),
     ImportCase(FromImportStatement(<<"m">>, <<FromImportItem("g", "h")>>, 5),
                Binds1("h", "g"), CallExpression(Identifier("h"), <<>>, <<>>)),
     ImportCase(FromImportStatement(<<"m">>,
                    <<FromImportItem("a", "b"), FromImportItem("g", "")>>, 5),
                Binds2("b", "a", "g", "g"), CallExpression(Identifier("g"), <<>>, <<>>)),
     ImportCase(FromImportStatement(<<"pkg", "m">>,
                    <<FromImportItem("g", ""), FromImportItem("o", "")>>, 5),
                Binds2("g", "g", "o", "mod:pkg.other"),
                CallExpression(Identifier("g"), <<>>, <<>>))}

\* Imports that raise: no such file, a module whose execution raises, and
\* a name the module does not define.
FailingImports ==
    {ImportCase(ImportStatement(<<ImportItem(<<"nofile">>, "")>>, 5), EmptyMap, PyNone),
     ImportCase(ImportStatement(<<ImportItem(<<"m">>, ""), ImportItem(<<"bad">>, "")>>, 5),
                Binds1("m", "mod:m"), PyNone),
     ImportCase(FromImportStatement(<<"bad">>, <<FromImportItem("a", "")>>, 5), EmptyMap, PyNone),
     ImportCase(FromImportStatement(<<"m">>,
                    <<FromImportItem("a", ""), FromImportItem("missing", "")>>, 5),
                Binds1("a", "a"), PyNone)}

Befores == {"none", "a", "g"}
Afters == {"none", "use", "read_a"}

ImportProgram(case, before, after) ==
    (IF before = "none" THEN <<>> ELSE <<SetStatement(before, Num(9), 4)>>)
    \o <<case.statement>>
    \o CASE after = "use" -> <<SetStatement("r", case.use, 6)>>
         [] after = "read_a" -> <<SetStatement("r", Identifier("a"), 6)>>
         [] OTHER -> <<>>

ImportInputs ==
    {[fam |-> "import", files |-> ModuleFiles, case |-> case, before |-> before,
      after |-> after, program |-> ImportProgram(case, before, after)] :
        case \in ImportCases \cup FromCases, before \in Befores, after \in Afters}
    \cup
    {[fam |-> "import_fails", files |-> ModuleFiles, case |-> case, before |-> before,
      after |-> "none", program |-> ImportProgram(case, before, "none")] :
        case \in FailingImports, before \in Befores}

InitImport == InitWith(ImportInputs)

NextImport ==
    \/ ExecSet \/ ExecExpression \/ ExecFunctionDefinition \/ ExecReturn \/ CallReturn
    \/ ExecImport \/ ExecFromImport \/ ImportStep \/ ImportUnwind \/ LoadReturn \/ LoadUnwind
    \/ BlockEnd \/ BlockUnwind \/ ExecuteReturn \/ ExecuteRaise

SpecImport == InitImport /\ [][NextImport]_vars

\* Whether v is what an alias was to be bound to.
IsImported(what, v) ==
    CASE what = "a" -> v = IntV(1)
      [] what = "g" -> v.t = "fn" /\ v.name = "g"
      [] what = "mod:m" ->
           /\ v.t = "module" /\ DOMAIN v.attrs = {"a", "g", "helper"}
           /\ v.attrs["a"] = IntV(1) /\ v.attrs["g"].t = "fn"
      [] what = "mod:pkg.m" ->
           /\ v.t = "module" /\ DOMAIN v.attrs = {"o", "a", "g"}
           /\ v.attrs["a"] = IntV(1) /\ v.attrs["g"].t = "fn"
      [] what = "mod:pkg.other" -> v.t = "module" /\ DOMAIN v.attrs = {"z"}
      [] OTHER -> v.t = "module"

BeforeNames == IF input.before = "none" THEN {} ELSE {input.before}

\* C9: IMPORT of a user module adds to the importer's global frame only the
\* binding of the alias (or last path component); the module's variables
\* and functions are attributes of the module object and are bound in no
\* frame of the importer.  FROM M IMPORT binds only the listed names, under
\* their aliases.
C9_ImportBindsOnlyAlias ==
    input.fam \in {"import", "import_fails"} =>
        LET binds == input.case.binds
            reads == input.after = "read_a" /\ "a" \notin (BeforeNames \cup DOMAIN binds)
            result == IF input.after = "none" \/ reads THEN {} ELSE {"r"}
        IN  /\ Len(ctx[1].frames) = 1
            /\ DOMAIN Globals \subseteq BeforeNames \cup DOMAIN binds \cup result
            /\ \A n \in DOMAIN Globals \cap DOMAIN binds :
                   IsImported(binds[n], Globals[n]) \/ (n \in BeforeNames /\ Globals[n] = IntV(9))
            /\ \A n \in (DOMAIN Globals \cap BeforeNames) \ DOMAIN binds : Globals[n] = IntV(9)
            /\ (input.fam = "import" /\ Ended) =>
                   /\ status = (IF reads THEN "failed" ELSE "done")
                   /\ DOMAIN Globals = BeforeNames \cup DOMAIN binds \cup result
                   /\ \A n \in DOMAIN binds : IsImported(binds[n], Globals[n])
                   /\ input.after = "use" => Globals["r"] = IntV(1)
                   /\ (input.after = "read_a" /\ ~reads) =>
                          Globals["r"] = (IF "a" \in DOMAIN binds THEN IntV(1) ELSE IntV(9))
            /\ (input.fam = "import_fails" /\ Ended) =>
                   /\ status = "failed"
                   /\ DOMAIN Globals = BeforeNames \cup DOMAIN binds

C9_Witness ==
    /\ input.fam = "import" /\ status = "done"
    /\ input.before = "a" /\ input.after = "read_a"
    /\ DOMAIN Globals = {"a", "x", "r"}
    /\ Globals["x"].t = "module" /\ Globals["x"].dotted = "pkg.m"
    /\ Globals["x"].attrs["a"] = IntV(1)
    /\ Globals["a"] = IntV(9) /\ Globals["r"] = IntV(9)

(***************************************************************************)
(* Programs about string interpolation.                                    *)
(*   <TARGET ["t1", "t2"]> / <SET name = "v" | 7> / NOTE "<template>"      *)
(* and the same with RUN, HTTP GET or OUTPUT for NOTE.  A template is up   *)
(* to MaxPieces pieces, each plain text or a placeholder: {target},        *)
(* {name}, {nope}, {nope.attr}, {nope[0]} or {}.                           *)
(***************************************************************************)
MaxPieces == 2

Pieces == {"text", "target", "name", "nope", "nope.attr", "nope[0]", "empty"}

\* The characters of a piece, as the tokens of the string literal.
PieceText(piece) ==
    CASE piece = "text" -> <<"scan">>
      [] piece = "target" -> <<"{", "target", "}">>
      [] piece = "name" -> <<"{", "name", "}">>
      [] piece = "nope" -> <<"{", "nope", "}">>
      [] piece = "nope.attr" -> <<"{", "nope", ".", "attr", "}">>
      [] piece = "nope[0]" -> <<"{", "nope", "[", "0", "]", "}">>
      [] OTHER -> <<"{", "}">>

RECURSIVE TemplateText(_)
TemplateText(pieces) ==
    IF pieces = <<>> THEN <<>> ELSE PieceText(Head(pieces)) \o TemplateText(Tail(pieces))

Templates == UNION {[1..n -> Pieces] : n \in 1..MaxPieces}
NameValues == {"absent", "string", "number"}
Interpolating == {"note", "run", "http", "output"}

InterpolationProgram(kind, pieces, targets, name) ==
    LET template == Lit(StrV(TemplateText(pieces)))
    IN  (IF targets THEN <<TargetStatement(ListExpression(<<Str("t1"), Str("t2")>>), 1)>>
         ELSE <<>>)
        \o (CASE name = "string" -> <<SetStatement("name", Str("v"), 2)>>
              [] name = "number" -> <<SetStatement("name", Num(7), 2)>>
              [] OTHER -> <<>>)
        \o <<CASE kind = "note" -> NoteStatement(template, 3)
               [] kind = "run" -> RunStatement(template, 3)
               [] kind = "http" -> HttpRequestStatement("GET", template, 3)
               [] OTHER -> OutputStatement(template, 3)>>

InterpolationInputs ==
    {[fam |-> "interpolation", files |-> NoFiles, kind |-> kind, pieces |-> pieces,
      targets |-> targets, name |-> name,
      program |-> InterpolationProgram(kind, pieces, targets, name)] :
        kind \in Interpolating, pieces \in Templates, targets \in BOOLEAN, name \in NameValues}

InitInterpolation == InitWith(InterpolationInputs)

NextInterpolation ==
    \/ ExecTarget \/ ExecSet \/ ExecNote \/ ExecRun \/ ExecHttp \/ ExecOutput
    \/ BlockEnd \/ BlockUnwind \/ ExecuteReturn \/ ExecuteRaise

SpecInterpolation == InitInterpolation /\ [][NextInterpolation]_vars

\* The text a piece becomes: the value of a known key, else the piece itself.
Interpolated(piece) ==
    CASE piece = "target" /\ input.targets -> <<"t1">>
      [] piece = "name" /\ input.name = "string" -> <<"v">>
      [] piece = "name" /\ input.name = "number" -> <<"7">>
      [] OTHER -> PieceText(piece)

RECURSIVE InterpolatedText(_)
InterpolatedText(pieces) ==
    IF pieces = <<>> THEN <<>> ELSE Interpolated(Head(pieces)) \o InterpolatedText(Tail(pieces))

\* The text the statement recorded: the note, or the detail of its Action.
RecordedText ==
    IF input.kind = "note" THEN ctx[1].notes[Len(ctx[1].notes)]
    ELSE ctx[1].standalone_actions[Len(ctx[1].standalone_actions)].detail.s

\* C10: interpolation in a domain statement replaces each placeholder that
\* names a known key by the key's value ({target} by the first target) and
\* leaves every placeholder it cannot resolve verbatim, whatever its form:
\* {nope}, {nope.attr}, {nope[0]} and {} never make the statement raise.
C10_InterpolationNeverRaises ==
    (input.fam = "interpolation" /\ Ended) =>
        /\ status = "done"
        /\ Explode(RecordedText) = Explode(InterpolatedText(input.pieces))

\* The same for templates whose placeholders are all plain names.
PlainNames ==
    \A i \in DOMAIN input.pieces : input.pieces[i] \in {"text", "target", "name", "nope"}

InterpolationOfPlainNames == PlainNames => C10_InterpolationNeverRaises

(***************************************************************************)
(* Programs about WITH.                                                    *)
(*   WITH <1..MaxItems managers>: NOTE "body"; <nothing | RAISE | BREAK |  *)
(*                                              CONTINUE | RETURN>         *)
(* at top level, in FOR v IN [1, 2] (BREAK, CONTINUE) or in a function     *)
(* (RETURN).  A manager is cm1, cm2, cmquiet (its exit swallows the        *)
(* exception), cmbad (its enter raises), a name nothing binds, or 5.       *)
(***************************************************************************)
MaxItems == 2

Managers == {"cm1", "cm2", "cmquiet", "cmbad", "unbound", "five"}
WithBodies == {"complete", "raise", "break", "continue", "return"}

ManagerItem(name, alias) ==
    WithItem(IF name = "five" THEN Num(5) ELSE Identifier(name), alias)

WithProgram(body, names) ==
    LET items == [i \in DOMAIN names |-> ManagerItem(names[i], IF i = 1 THEN "held" ELSE "")]
        exit == CASE body = "raise" -> <<RaiseOf("E2")>>
                  [] body = "break" -> <<BreakStatement(0)>>
                  [] body = "continue" -> <<ContinueStatement(0)>>
                  [] body = "return" -> <<ReturnStatement(Num(1), 0)>>
                  [] OTHER -> <<>>
        with == WithStatement(items, <<Note("body")>> \o exit, 2)
    IN  CASE body \in {"break", "continue"} ->
               <<ForStatement("v", ListExpression(<<Num(1), Num(2)>>), <<with, Note("after")>>, 1),
                 Note("end")>>
          [] body = "return" ->
               <<FunctionDefinition("f", <<>>, <<with, Note("after")>>, FALSE, 1),
                 AssignmentStatement("r", CallExpression(Identifier("f"), <<>>, <<>>), 3),
                 Note("end")>>
          [] OTHER -> <<with, Note("end")>>

WithInputs ==
    {[fam |-> "with", files |-> NoFiles, body |-> body, names |-> names,
      program |-> WithProgram(body, names)] :
        body \in WithBodies, names \in UNION {[1..n -> Managers] : n \in 1..MaxItems}}

InitWithStatement == InitWith(WithInputs)

NextWith ==
    \/ ExecWith \/ WithExit \/ ExecNote \/ ExecRaise \/ ExecBreak \/ ExecContinue \/ ExecReturn
    \/ ExecFor \/ ForNext \/ ForCatch
    \/ ExecFunctionDefinition \/ ExecAssignment \/ CallReturn \/ CallUnwind
    \/ BlockEnd \/ BlockUnwind \/ ExecuteReturn \/ ExecuteRaise

SpecWith == InitWithStatement /\ [][NextWith]_vars

ManagerId(name) == CASE name = "cm1" -> 1 [] name = "cm2" -> 2 [] name = "cmquiet" -> 4 [] OTHER -> 3

\* How many managers one execution of the statement enters: those listed
\* before the first that cannot be evaluated or entered.
EnteredCount(names) ==
    LET failing == {i \in DOMAIN names : names[i] \in {"cmbad", "unbound", "five"}}
    IN  IF failing = {} THEN Len(names) ELSE (CHOOSE i \in failing : \A j \in failing : i <= j) - 1

\* What one execution of the statement adds to the managers' log.
WithRound(names) ==
    LET k == EnteredCount(names)
    IN  [i \in 1..k |-> <<"enter", ManagerId(names[i])>>]
        \o [i \in 1..k |-> <<"exit", ManagerId(names[k + 1 - i])>>]

WithExecuting == \E i \in DOMAIN stack : stack[i].k = "with"

\* C11: WITH enters its managers in listed order and, however its body is
\* left (completion, error, BREAK, CONTINUE, RETURN), exits every manager it
\* entered exactly once, in reverse order of entry; when the k-th manager
\* cannot be evaluated or entered the body does not run and managers
\* 1..k-1 are exited in reverse order.
C11_WithExitsInReverse ==
    input.fam = "with" =>
        LET round == WithRound(input.names)
            all == EnteredCount(input.names) = Len(input.names)
            bodies == Count("body", ctx[1].notes)
        IN  /\ IsPrefix(cmlog, round \o round)
            /\ ~all => bodies = 0
            /\ ~WithExecuting =>
                   \/ cmlog = <<>> /\ bodies = 0 /\ ~Ended
                   \/ cmlog = round /\ (all => bodies = 1)
                   \/ cmlog = round \o round /\ (all => bodies = 2)
            /\ Ended => Len(ctx[1].frames) = 1

C11_Witness ==
    /\ input.fam = "with" /\ Ended
    /\ input.names = <<"cm1", "cm2">> /\ input.body = "raise"
    /\ status = "failed" /\ sig.exc.of = "E2"
    /\ cmlog = <<<<"enter", 1>>, <<"enter", 2>>, <<"exit", 2>>, <<"exit", 1>>>>

\* A manager that cannot be entered after one that was: the first is exited.
WithWitnessFailedEnter ==
    /\ input.fam = "with" /\ Ended /\ input.names = <<"cm2", "cmbad">>
    /\ cmlog = <<<<"enter", 2>>, <<"exit", 2>>>>

(***************************************************************************)
(* Programs about BREAK and CONTINUE that no loop encloses.                *)
(*   <BREAK | CONTINUE> / NOTE "end"               at top level            *)
(*   DEF f(): <BREAK | CONTINUE>; NOTE "rest"  with f() called at top      *)
(*   level, or from the body of a WHILE or FOR loop of the caller:         *)
(*       FOR v IN [1, 2]: NOTE "before"; f(); NOTE "after"                 *)
(* The statement stands alone or inside an IF, WITH, TASK or TRY..FINALLY. *)
(***************************************************************************)
StrayPlaces == {"top", "function", "called_in_while", "called_in_for"}
StrayWrappers == {"none", "if", "with", "task", "try_finally"}

StrayProgram(kind, place, w) ==
    LET signal == IF w = "none" THEN <<SignalStatement(kind)>>
                  ELSE Wrap(w, <<SignalStatement(kind)>>)
        f == FunctionDefinition("f", <<>>, signal \o <<Note("rest")>>, FALSE, 1)
        call == <<Note("before"),
                  ExpressionStatement(CallExpression(Identifier("f"), <<>>, <<>>), 3),
                  Note("after")>>
    IN  CASE place = "top" -> signal \o <<Note("end")>>
          [] place = "function" -> <<f>> \o call \o <<Note("end")>>
          [] place = "called_in_while" ->
               <<f, SetStatement("i", Num(0), 2),
                 WhileStatement(BinaryExpression(Identifier("i"), "LT", Num(2)),
                                <<AugmentedAssignmentStatement("i", "PLUSEQ", Num(1), 2)>> \o call,
                                <<>>, 2),
                 Note("end")>>
          [] OTHER ->
               <<f, ForStatement("v", ListExpression(<<Num(1), Num(2)>>), call, 2), Note("end")>>

StrayInputs ==
    {[fam |-> "strayloop", files |-> NoFiles, kind |-> kind, place |-> place,
      program |-> StrayProgram(kind, place, w)] :
        kind \in {"break", "continue"}, place \in StrayPlaces, w \in StrayWrappers}

InitStray == InitWith(StrayInputs)

NextStray ==
    \/ ExecBreak \/ ExecContinue \/ ExecPass \/ ExecNote \/ ExecSet \/ ExecAugmentedAssignment
    \/ ExecIf \/ ExecWith \/ WithExit \/ ExecTask \/ TaskExit
    \/ ExecTry \/ TryExcept \/ TryFinallyExit
    \/ ExecFunctionDefinition \/ ExecExpression \/ CallUnwind
    \/ ExecWhile \/ WhileTest \/ WhileCatch \/ ExecFor \/ ForNext \/ ForCatch
    \/ BlockEnd \/ BlockUnwind \/ ExecuteReturn \/ ExecuteRaise

SpecStray == InitStray /\ [][NextStray]_vars

\* C12: a BREAK or CONTINUE that no loop of the same function body (or of
\* the top-level program) encloses ends the execution in an error; executed
\* in a function called from inside a loop of its caller, it neither
\* terminates nor continues the caller's loop.
C12_StrayLoopSignal ==
    (input.fam = "strayloop" /\ Ended) =>
        /\ status = "failed"
        /\ Count("end", ctx[1].notes) = 0
        /\ Count("before", ctx[1].notes) <= 1

\* The same for the statements not executed under a loop of a caller.
StrayOutsideEveryLoop ==
    input.place \in {"top", "function"} => C12_StrayLoopSignal

(***************************************************************************)
(* The lexer (sapl/lexer.py).  A text is a sequence of characters; the     *)
(* Lexer object is ctx[1], a LexError in flight is sig, and status says    *)
(* whether tokenize is running, returned or raised.  Tokens carry their    *)
(* type and value (lines and columns are not modelled).                    *)
(***************************************************************************)
Whitespace == {" ", "\t", "\r"}
Letters == {"a", "i", "f", "_"}
DigitChars == {"1", "2"}
Upper(ch) == CASE ch = "a" -> "A" [] ch = "i" -> "I" [] ch = "f" -> "F" [] OTHER -> ch
KEYWORDS == {<<"I", "F">>}

OPERATORS ==
    [lexeme \in {<<"=", "=">>, <<"!", "=">>, <<"<", "=">>, <<">", "=">>, <<"<">>, <<">">>,
                 <<"+", "=">>, <<"-", "=">>, <<"*", "=">>, <<"/", "=">>, <<"/", "/", "=">>,
                 <<"%", "=">>, <<"*", "*", "=">>, <<"+">>, <<"-">>, <<"*">>, <<"*", "*">>,
                 <<"/">>, <<"/", "/">>, <<"%">>, <<"=">>, <<":">>, <<".">>} |->
        CASE lexeme = <<"=", "=">> -> "EQ" [] lexeme = <<"!", "=">> -> "NEQ"
          [] lexeme = <<"<", "=">> -> "LTE" [] lexeme = <<">", "=">> -> "GTE"
          [] lexeme = <<"<">> -> "LT" [] lexeme = <<">">> -> "GT"
          [] lexeme = <<"+", "=">> -> "PLUSEQ" [] lexeme = <<"-", "=">> -> "MINUSEQ"
          [] lexeme = <<"*", "=">> -> "STAREQ" [] lexeme = <<"/", "=">> -> "SLASHEQ"
          [] lexeme = <<"/", "/", "=">> -> "DBLSLASHEQ" [] lexeme = <<"%", "=">> -> "PERCENTEQ"
          [] lexeme = <<"*", "*", "=">> -> "POWEQ" [] lexeme = <<"+">> -> "PLUS"
          [] lexeme = <<"-">> -> "MINUS" [] lexeme = <<"*">> -> "STAR"
          [] lexeme = <<"*", "*">> -> "POWER" [] lexeme = <<"/">> -> "SLASH"
          [] lexeme = <<"/", "/">> -> "DBLSLASH" [] lexeme = <<"%">> -> "PERCENT"
          [] lexeme = <<"=">> -> "ASSIGN" [] lexeme = <<":">> -> "COLON"
          [] OTHER -> "DOT"]

DELIMITERS ==
    [ch \in {"(", ")", "[", "]", "{", "}", ","} |->
        CASE ch = "(" -> "LPAREN" [] ch = ")" -> "RPAREN" [] ch = "[" -> "LBRACKET"
          [] ch = "]" -> "RBRACKET" [] ch = "{" -> "LBRACE" [] ch = "}" -> "RBRACE"
          [] OTHER -> "COMMA"]

Token(type, value) == [type |-> type, value |-> value]

\* Lexer.__init__
Lexer(text) ==
    [text |-> text, position |-> 0, indent_stack |-> <<0>>, at_line_start |-> TRUE,
     tokens |-> <<>>]

LexErrorV(message) == ExcV("LexError", <<message>>)

is_at_end(lx) == lx.position >= Len(lx.text)
peek(lx) == lx.text[lx.position + 1]
\* _peek_many: the next count characters, nothing when fewer are left
peek_many(lx, count) ==
    IF lx.position + count > Len(lx.text) THEN <<>>
    ELSE SubSeq(lx.text, lx.position + 1, lx.position + count)

\* A scan that resumes at the start of the text.
text_start(text, idx) == 0

\* _handle_indent: the index after the spaces, tabs and carriage returns
\* that start at idx, and the indentation the characters from..to amount to.
RECURSIVE indent_end(_, _)
indent_end(text, idx) ==
    IF idx < Len(text) /\ text[idx + 1] \in Whitespace THEN indent_end(text, idx + 1) ELSE idx

RECURSIVE indent_width(_, _, _)
indent_width(text, from, to) ==
    IF from >= to THEN 0
    ELSE (CASE text[from + 1] = " " -> 1 [] text[from + 1] = "\t" -> 4 [] OTHER -> 0)
         + indent_width(text, from + 1, to)

\* _handle_indent: the levels deeper than indent are popped.
RECURSIVE pop_deeper(_, _)
pop_deeper(indent_stack, indent) ==
    IF indent < indent_stack[Len(indent_stack)]
    THEN pop_deeper(SubSeq(indent_stack, 1, Len(indent_stack) - 1), indent)
    ELSE indent_stack

\* Lexer._handle_indent: the lexer after it, and whether it raised
\* "Unbalanced indentation".
\* Only the blank lines are lines without code.
blank_line(text, idx) == idx >= Len(text) \/ text[idx + 1] = "\n"

\* _handle_indent: the text ends at idx, or the line is blank or a comment.
no_code(text, idx) == idx >= Len(text) \/ text[idx + 1] \in {"\n", "#"}

handle_indent(lx) ==
    LET at(idx) ==
            LET moved == [lx EXCEPT !.position = idx]
                level(indent, current, popped) ==
                    IF no_code(lx.text, idx)
                    THEN [lx |-> moved, error |-> FALSE]
                    ELSE IF indent = current THEN [lx |-> moved, error |-> FALSE]
                    ELSE IF indent > current
                    THEN [lx |-> [moved EXCEPT !.indent_stack = Append(@, indent),
                                               !.tokens = Append(@, Token("INDENT", <<>>))],
                          error |-> FALSE]
                    ELSE [lx |-> [moved EXCEPT
                                     !.indent_stack = popped,
                                     !.tokens = @ \o [i \in 1..(Len(lx.indent_stack) - Len(popped))
                                                         |-> Token("DEDENT", <<>>)]],
                          error |-> indent # popped[Len(popped)]]
            IN  level(indent_width(lx.text, lx.position, idx),
                      lx.indent_stack[Len(lx.indent_stack)],
                      pop_deeper(lx.indent_stack, indent_width(lx.text, lx.position, idx)))
    IN  at(indent_end(lx.text, lx.position))

\* The index after the run of characters of S that starts at idx.
RECURSIVE run_end(_, _, _)
run_end(text, idx, S) ==
    IF idx < Len(text) /\ text[idx + 1] \in S THEN run_end(text, idx + 1, S) ELSE idx

\* The index of the next newline at or after idx (the end of the text without one).
RECURSIVE line_end(_, _)
line_end(text, idx) ==
    IF idx < Len(text) /\ text[idx + 1] # "\n" THEN line_end(text, idx + 1) ELSE idx

\* Lexer._block_comment: where the text of the comment ends, and whether a
\* closing marker follows it.
RECURSIVE block_comment(_, _, _)
block_comment(text, idx, at_line_start) ==
    IF idx >= Len(text) THEN [end |-> idx, closed |-> FALSE]
    ELSE IF at_line_start /\ idx + 2 <= Len(text) /\ SubSeq(text, idx + 1, idx + 2) = <<"#", "#">>
    THEN [end |-> idx, closed |-> TRUE]
    ELSE block_comment(text, idx + 1,
                       IF text[idx + 1] = "\n" THEN TRUE
                       ELSE IF text[idx + 1] \in {" ", "\t"} THEN at_line_start
                       ELSE FALSE)

\* Lexer._comment
comment(lx) ==
    LET start == lx.position + 1
        block(b) ==
            [lx EXCEPT !.position = IF b.closed THEN b.end + 2 ELSE b.end,
                       !.at_line_start =
                           @ \/ \E i \in (start + 2)..b.end : lx.text[i] = "\n",
                       !.tokens = Append(@, Token("COMMENT", SubSeq(lx.text, start + 2, b.end)))]
        line(end) ==
            [lx EXCEPT !.position = end,
                       !.tokens = Append(@, Token("COMMENT", SubSeq(lx.text, start + 1, end)))]
    IN  IF start < Len(lx.text) /\ lx.text[start + 1] = "#"
        THEN block(block_comment(lx.text, start + 1, TRUE))
        ELSE line(line_end(lx.text, start))

escape_map(ch) == CASE ch = "n" -> "\n" [] ch = "t" -> "\t" [] ch = "r" -> "\r" [] OTHER -> ch

\* Lexer._string from idx on: the characters of the literal, the index
\* after its closing quote, or ok = FALSE when the text ends first.
RECURSIVE string_scan(_, _, _, _)
string_scan(text, idx, delimiter, chars) ==
    IF idx >= Len(text) THEN [ok |-> FALSE, end |-> idx, chars |-> chars]
    ELSE IF text[idx + 1] = delimiter THEN [ok |-> TRUE, end |-> idx + 1, chars |-> chars]
    ELSE IF text[idx + 1] = "\\"
    THEN IF idx + 1 >= Len(text) THEN [ok |-> FALSE, end |-> idx + 1, chars |-> chars]
         ELSE string_scan(text, idx + 2, delimiter, Append(chars, escape_map(text[idx + 2])))
    ELSE string_scan(text, idx + 1, delimiter, Append(chars, text[idx + 1]))

\* Lexer._number: the index after the literal.
number_end(text, idx) ==
    LET fraction(whole) ==
            IF whole < Len(text) /\ text[whole + 1] = "."
            THEN run_end(text, whole + 1, DigitChars) ELSE whole
    IN  fraction(run_end(text, idx + 1, DigitChars))

\* Lexer._identifier: a keyword's type is its upper-case spelling.
identifier(lx) ==
    LET token(value) ==
            IF [i \in DOMAIN value |-> Upper(value[i])] \in KEYWORDS
            THEN Token("IF", <<"I", "F">>) ELSE Token("IDENT", value)
        upto(end) ==
            [lx EXCEPT !.position = end,
                       !.tokens = Append(@, token(SubSeq(lx.text, lx.position + 1, end)))]
    IN  upto(run_end(lx.text, lx.position + 1, Letters \cup DigitChars))

\* Lexer._operator_token: the length of the longest operator at the
\* position, 0 when there is none.
operator_length(lx) ==
    IF peek_many(lx, 3) \in DOMAIN OPERATORS THEN 3
    ELSE IF peek_many(lx, 2) \in DOMAIN OPERATORS THEN 2
    ELSE IF peek_many(lx, 1) \in DOMAIN OPERATORS THEN 1
    ELSE 0

Scanned(branch, lx, message) == [branch |-> branch, lx |-> lx, message |-> message]

\* One pass of the loop of Lexer._generate_tokens from the character
\* dispatch on.
dispatch(lx) ==
    LET char == peek(lx)
        string(r) ==
            IF r.ok
            THEN Scanned("string",
                         [lx EXCEPT !.position = r.end,
                                    !.tokens = Append(@, Token("STRING", r.chars))], "")
            ELSE Scanned("unterminated", lx, "Unterminated string literal")
        number(end) ==
            Scanned("number",
                    [lx EXCEPT !.position = end,
                               !.tokens = Append(@, Token("NUMBER",
                                                  SubSeq(lx.text, lx.position + 1, end)))], "")
        operator(length) ==
            IF length = 0 THEN Scanned("unexpected", lx, "Unexpected character")
            ELSE Scanned("operator",
                         [lx EXCEPT !.position = @ + length,
                                    !.tokens = Append(@, Token(OPERATORS[peek_many(lx, length)],
                                                               peek_many(lx, length)))], "")
    IN  CASE char \in Whitespace -> Scanned("whitespace", [lx EXCEPT !.position = @ + 1], "")
          [] char = "\n" ->
               Scanned("newline",
                       [lx EXCEPT !.position = @ + 1, !.at_line_start = TRUE,
                                  !.tokens = Append(@, Token("NEWLINE", <<"\n">>))], "")
          [] char = "#" -> Scanned("comment", comment(lx), "")
          [] char \in {"\"", "'"} -> string(string_scan(lx.text, lx.position + 1, char, <<>>))
          [] char \in DigitChars -> number(number_end(lx.text, lx.position))
          [] char \in Letters -> Scanned("identifier", identifier(lx), "")
          [] char \in DOMAIN DELIMITERS ->
               Scanned("delimiter",
                       [lx EXCEPT !.position = @ + 1,
                                  !.tokens = Append(@, Token(DELIMITERS[char], <<char>>))], "")
          [] OTHER -> operator(operator_length(lx))

\* One pass of the loop of Lexer._generate_tokens.
scan(lx) ==
    LET indented(h) ==
            IF h.error THEN Scanned("unbalanced", h.lx, "Unbalanced indentation")
            ELSE IF is_at_end(h.lx) THEN Scanned("end", h.lx, "")
            ELSE dispatch([h.lx EXCEPT !.at_line_start = FALSE])
    IN  IF is_at_end(lx) THEN Scanned("end", lx, "")
        ELSE IF lx.at_line_start THEN indented(handle_indent(lx))
        ELSE dispatch(lx)

Tokenizing == status = "running" /\ stack = <<>>

\* A pass that yields a token or skips a character, and goes on.
Scan(branch) ==
    /\ Tokenizing
    /\ LET pass(r) ==
               /\ r.branch = branch
               /\ ctx' = <<r.lx>>
       IN  pass(scan(ctx[1]))
    /\ UNCHANGED <<stack, sig, status, cmlog, input>>

ScanWhitespace == Scan("whitespace")
ScanNewline == Scan("newline")
ScanComment == Scan("comment")
ScanString == Scan("string")
ScanNumber == Scan("number")
ScanIdentifier == Scan("identifier")
ScanDelimiter == Scan("delimiter")
ScanOperator == Scan("operator")

\* A pass that raises a LexError.
ScanError ==
    /\ Tokenizing
    /\ LET pass(r) ==
               /\ r.branch \in {"unbalanced", "unterminated", "unexpected"}
               /\ ctx' = <<r.lx>>
               /\ sig' = ErrorSig(LexErrorV(r.message))
       IN  pass(scan(ctx[1]))
    /\ status' = "failed"
    /\ UNCHANGED <<stack, cmlog, input>>

\* The scan ends; Lexer.tokenize unwinds the indentation stack and appends EOF.
TokenizeReturn ==
    /\ Tokenizing
    /\ LET pass(r) ==
               /\ r.branch = "end"
               /\ ctx' = <<[r.lx EXCEPT
                              !.indent_stack = <<0>>,
                              !.tokens = @ \o [i \in 1..(Len(r.lx.indent_stack) - 1) |->
                                                  Token("DEDENT", <<>>)]
                                           \o <<Token("EOF", <<>>)>>]>>
       IN  pass(scan(ctx[1]))
    /\ status' = "done"
    /\ UNCHANGED <<stack, sig, cmlog, input>>

InitLexer(inputs) ==
    /\ input \in inputs
    /\ ctx = <<Lexer(input.text)>>
    /\ stack = <<>>
    /\ sig = NoSig
    /\ status = "running"
    /\ cmlog = <<>>

(***************************************************************************)
(* Texts to tokenize: every text of up to MaxText characters, and texts    *)
(* made of up to MaxLines lines, each a line of code ("a") at a nesting    *)
(* depth, a blank line, a "#" comment line or a three-line "##" block      *)
(* comment at some indentation.  One level is one space or one tab.        *)
(***************************************************************************)
MaxText == 3
MaxLines == 3
MaxDepth == 2

Alphabet == {" ", "\n", "#", "a", "1", "'", "\\", "=", "(", "@"}
Texts == UNION {[1..n -> Alphabet] : n \in 0..MaxText}

LineKinds ==
    {[kind |-> "code", width |-> d] : d \in 0..MaxDepth}
    \cup {[kind |-> "comment", width |-> w] : w \in {0, MaxDepth}}
    \cup {[kind |-> "blank", width |-> MaxDepth]}
    \cup {[kind |-> "block", width |-> 1]}

\* Code lines start at depth 0 and go at most one level deeper at a time.
RECURSIVE DepthsFollow(_, _)
DepthsFollow(lines, depth) ==
    IF lines = <<>> THEN TRUE
    ELSE IF Head(lines).kind # "code" THEN DepthsFollow(Tail(lines), depth)
    ELSE Head(lines).width <= depth + 1 /\ DepthsFollow(Tail(lines), Head(lines).width)

Layouts == {lines \in UNION {[1..n -> LineKinds] : n \in 1..MaxLines} : DepthsFollow(lines, -1)}

Pad(unit, width) == [i \in 1..width |-> unit]

LineText(line, unit) ==
    Pad(unit, line.width) \o
    CASE line.kind = "code" -> <<"a">>
      [] line.kind = "comment" -> <<"#", "a">>
      [] line.kind = "block" ->
           <<"#", "#", "\n">> \o Pad(unit, line.width + 1) \o <<"a", "\n">>
           \o Pad(unit, line.width) \o <<"#", "#">>
      [] OTHER -> <<>>

RECURSIVE LayoutText(_, _, _)
LayoutText(lines, unit, newline) ==
    IF lines = <<>> THEN <<>>
    ELSE LineText(Head(lines), unit)
         \o (IF Len(lines) > 1 \/ newline THEN <<"\n">> ELSE <<>>)
         \o LayoutText(Tail(lines), unit, newline)

LexerInputs ==
    {[fam |-> "text", text |-> text, lines |-> <<>>] : text \in Texts}
    \cup
    {[fam |-> "layout", text |-> LayoutText(lines, v[1], v[2]), lines |-> lines] :
        lines \in Layouts, v \in {<<" ", TRUE>>, <<"\t", TRUE>>, <<" ", FALSE>>}}

InitTokenize == InitLexer(LexerInputs)

NextLexer ==
    \/ ScanWhitespace \/ ScanNewline \/ ScanComment \/ ScanString \/ ScanNumber
    \/ ScanIdentifier \/ ScanDelimiter \/ ScanOperator \/ ScanError \/ TokenizeReturn

SpecLexer == InitTokenize /\ [][NextLexer]_vars

\* The INDENT, DEDENT and code tokens of a token stream, in order.
RECURSIVE Structure(_)
Structure(tokens) ==
    IF tokens = <<>> THEN <<>>
    ELSE (IF Head(tokens).type \in {"INDENT", "DEDENT", "IDENT"} THEN <<Head(tokens).type>>
          ELSE <<>>) \o Structure(Tail(tokens))

\* What the layout calls for: before a line of code one INDENT when it is
\* one level deeper than the code before it, one DEDENT for every level it
\* is shallower; nothing for other lines; at the end one DEDENT per open level.
RECURSIVE LayoutStructure(_, _)
LayoutStructure(lines, depth) ==
    IF lines = <<>> THEN [i \in 1..depth |-> "DEDENT"]
    ELSE IF Head(lines).kind # "code" THEN LayoutStructure(Tail(lines), depth)
    ELSE (IF Head(lines).width > depth THEN <<"INDENT">>
          ELSE [i \in 1..(depth - Head(lines).width) |-> "DEDENT"])
         \o <<"IDENT">> \o LayoutStructure(Tail(lines), Head(lines).width)

RECURSIVE CountType(_, _)
CountType(type, tokens) ==
    IF tokens = <<>> THEN 0
    ELSE (IF Head(tokens).type = type THEN 1 ELSE 0) + CountType(type, Tail(tokens))

\* C13: in a text that tokenizes, a block nested to depth N has N INDENT
\* tokens before its body and N DEDENT tokens after it; blank lines and
\* comment-only lines, at any indentation and anywhere in the block, emit
\* no INDENT or DEDENT; the stream has as many DEDENT as INDENT tokens.
\* The texts built from lines all tokenize, with the INDENT and DEDENT
\* tokens their lines of code call for.
C13_IndentBalance ==
    /\ status = "done" =>
           CountType("INDENT", ctx[1].tokens) = CountType("DEDENT", ctx[1].tokens)
    /\ (input.fam = "layout" /\ Ended) =>
           /\ status = "done"
           /\ Structure(ctx[1].tokens) = LayoutStructure(input.lines, 0)

C13_Witness ==
    /\ status = "done" /\ input.fam = "layout"
    /\ input.lines = << [kind |-> "code", width |-> 0],
                        [kind |-> "comment", width |-> 2],
                        [kind |-> "code", width |-> 1] >>
    /\ Structure(ctx[1].tokens) = <<"IDENT", "INDENT", "IDENT", "DEDENT">>

\* C14: tokenize terminates on every input: every pass of the scanning
\* loop consumes at least one character, raises a LexError or ends the
\* scan; a successful result ends with one DEDENT for every indentation
\* level open at the end of the input and then exactly one EOF, its last token.
C14_TokenizeTerminates ==
    [][/\ ctx'[1].position <= Len(input.text)
       /\ status' = "running" => ctx'[1].position > ctx[1].position
       /\ status' = "done" =>
              /\ ctx'[1].tokens = ctx[1].tokens
                     \o [i \in 1..(Len(ctx[1].indent_stack) - 1) |-> Token("DEDENT", <<>>)]
                     \o <<Token("EOF", <<>>)>>
              /\ CountType("EOF", ctx'[1].tokens) = 1
      ]_vars

C14_Witness ==
    /\ status = "done" /\ input.fam = "layout"
    /\ Len(ctx[1].tokens) >= 3
    /\ ctx[1].tokens[Len(ctx[1].tokens)].type = "EOF"
    /\ ctx[1].tokens[Len(ctx[1].tokens) - 1].type = "DEDENT"
    /\ ctx[1].tokens[Len(ctx[1].tokens) - 2].type = "DEDENT"

(***************************************************************************)
(* The parser (sapl/parser.py): expressions by precedence climbing.  A     *)
(* Parser object is [tokens, position]; a parse gives the node and the     *)
(* position after it, or the message of the ParseError it raises.          *)
(***************************************************************************)
BINARY_PRECEDENCE ==
    [type \in {"OR"} |-> 1] @@ [type \in {"AND"} |-> 2] @@ [type \in {"EQ", "NEQ"} |-> 3]
    @@ [type \in {"LT", "LTE", "GT", "GTE", "IN"} |-> 4] @@ [type \in {"PLUS", "MINUS"} |-> 5]
    @@ [type \in {"STAR", "SLASH", "DBLSLASH", "PERCENT"} |-> 6] @@ [type \in {"POWER"} |-> 7]

RIGHT_ASSOCIATIVE == {"POWER"}

Parser(tokens) == [tokens |-> tokens, position |-> 0]
ParseErrorV(message) == ExcV("ParseError", message)
Parsed(node, position) == [ok |-> TRUE, node |-> node, position |-> position]
NotParsed(message) == [ok |-> FALSE, message |-> message]

\* int(token.value) of a NUMBER token without a ".".
DecimalDigit == [ch \in {"0", "1", "2", "3", "4", "5", "6", "7", "8", "9"} |->
                 CASE ch = "0" -> 0 [] ch = "1" -> 1 [] ch = "2" -> 2 [] ch = "3" -> 3
                   [] ch = "4" -> 4 [] ch = "5" -> 5 [] ch = "6" -> 6 [] ch = "7" -> 7
                   [] ch = "8" -> 8 [] OTHER -> 9]
RECURSIVE int_of(_)
int_of(value) ==
    IF value = <<>> THEN 0
    ELSE 10 * int_of(SubSeq(value, 1, Len(value) - 1)) + DecimalDigit[value[Len(value)]]

\* The name an IDENT token's characters spell.
ident_name(value) == CHOOSE name \in {"a", "b", "c", "e", "i", "x"} : value = <<name>>

\* Every operator groups to the right.
same_precedence(type) == BINARY_PRECEDENCE[type]

\* _expression: the precedence the right operand is parsed at.
next_precedence(type) ==
    BINARY_PRECEDENCE[type] + (IF type \in RIGHT_ASSOCIATIVE THEN 0 ELSE 1)

\* _prefix for the tokens that start an operand here (a number, a name, a
\* parenthesised expression) and those that cannot start one; _expression
\* with its loop over the binary operators that follow the operand.
RECURSIVE prefix(_, _)
RECURSIVE expression(_, _, _)
RECURSIVE binary_loop(_, _, _, _)
RECURSIVE list_elements(_, _, _)
RECURSIVE conditional_else_pending(_, _, _)

\* _conditional_else_pending: the scan from the IF token (at index, counted
\* from 1) for an ELSE outside every bracket opened after the IF.
conditional_else_pending(tokens, index, depth) ==
    IF index > Len(tokens) THEN FALSE
    ELSE LET type == tokens[index].type
         IN  IF type \in {"LPAREN", "LBRACKET", "LBRACE"}
             THEN conditional_else_pending(tokens, index + 1, depth + 1)
             ELSE IF type \in {"RPAREN", "RBRACKET", "RBRACE"}
             THEN IF depth = 0 /\ type \in {"RBRACKET", "RBRACE"} THEN FALSE
                  ELSE conditional_else_pending(tokens, index + 1,
                                                IF depth > 0 THEN depth - 1 ELSE 0)
             ELSE IF depth = 0 /\ type = "ELSE" THEN TRUE
             ELSE IF depth = 0 /\ type \in {"COMMA", "COLON", "NEWLINE", "DEDENT", "EOF", "FOR"}
             THEN FALSE
             ELSE conditional_else_pending(tokens, index + 1, depth)

\* _prefix at a list comprehension, after FOR: the iterator, IN, the
\* iterable, an optional IF with the filter, and the closing bracket.
comprehension(tokens, position, first) ==
    LET close(sequence, condition, end) ==
            IF tokens[end + 1].type # "RBRACKET"
            THEN NotParsed(<<"Expected closing ']' for list comprehension">>)
            ELSE Parsed(ListComprehension(first, ident_name(tokens[position + 1].value),
                                          sequence, condition), end + 1)
        filter(sequence, condition) ==
            IF ~condition.ok THEN condition
            ELSE close(sequence, condition.node, condition.position)
        rest(sequence) ==
            IF ~sequence.ok THEN sequence
            ELSE IF tokens[sequence.position + 1].type = "IF"
            THEN filter(sequence.node, expression(tokens, sequence.position + 1, 0))
            ELSE close(sequence.node, PyNone, sequence.position)
    IN  IF tokens[position + 1].type # "IDENT"
        THEN NotParsed(<<"Expected identifier in list comprehension">>)
        ELSE IF tokens[position + 2].type # "IN"
        THEN NotParsed(<<"Expected IN in list comprehension">>)
        ELSE rest(expression(tokens, position + 2, 0))

\* _prefix at a list, after its first element: the elements that commas
\* introduce, and the closing bracket.
list_elements(tokens, position, elements) ==
    IF tokens[position + 1].type = "COMMA" /\ tokens[position + 2].type # "RBRACKET"
    THEN LET more(element) ==
                 IF ~element.ok THEN element
                 ELSE list_elements(tokens, element.position, Append(elements, element.node))
         IN  more(expression(tokens, position + 1, 0))
    ELSE LET end == IF tokens[position + 1].type = "COMMA" THEN position + 1 ELSE position
         IN  IF tokens[end + 1].type # "RBRACKET"
             THEN NotParsed(<<"Expected closing ']' for list">>)
             ELSE Parsed(ListExpression(elements), end + 1)

prefix(tokens, position) ==
    LET token == tokens[position + 1]
    IN  CASE token.type = "NUMBER" -> Parsed(Lit(IntV(int_of(token.value))), position + 1)
          [] token.type = "IDENT" -> Parsed(Identifier(ident_name(token.value)), position + 1)
          [] token.type = "LPAREN" ->
               LET close(inner) ==
                       IF ~inner.ok THEN inner
                       ELSE IF tokens[inner.position + 1].type = "RPAREN"
                       THEN Parsed(inner.node, inner.position + 1)
                       ELSE NotParsed(<<"Expected closing ')' for grouping">>)
               IN  close(expression(tokens, position + 1, 0))
          [] token.type = "LBRACKET" ->
               LET after(first) ==
                       IF ~first.ok THEN first
                       ELSE IF tokens[first.position + 1].type = "FOR"
                       THEN comprehension(tokens, first.position + 1, first.node)
                       ELSE list_elements(tokens, first.position, <<first.node>>)
               IN  IF tokens[position + 2].type = "RBRACKET"
                   THEN Parsed(ListExpression(<<>>), position + 2)
                   ELSE after(expression(tokens, position + 1, 0))
          [] OTHER -> NotParsed(<<"Unexpected token ", token.type>>)

expression(tokens, position, precedence) ==
    LET loop(left) ==
            IF ~left.ok THEN left
            ELSE binary_loop(tokens, left.position, precedence, left.node)
    IN  loop(prefix(tokens, position))

binary_loop(tokens, position, precedence, expr) ==
    LET type == tokens[position + 1].type
        conditional(condition) ==
            IF ~condition.ok THEN condition
            ELSE IF tokens[condition.position + 1].type # "ELSE"
            THEN NotParsed(<<"Expected ELSE in conditional expression">>)
            ELSE LET join(if_false) ==
                         IF ~if_false.ok THEN if_false
                         ELSE binary_loop(tokens, if_false.position, precedence,
                                          ConditionalExpression(condition.node, expr,
                                                                if_false.node))
                 IN  join(expression(tokens, condition.position + 1, precedence))
    IN  IF type = "IF" /\ precedence <= 0
        THEN IF ~conditional_else_pending(tokens, position + 1, 0) THEN Parsed(expr, position)
             ELSE conditional(expression(tokens, position + 1, 0))
        ELSE IF type \notin DOMAIN BINARY_PRECEDENCE THEN Parsed(expr, position)
        ELSE IF BINARY_PRECEDENCE[type] < precedence THEN Parsed(expr, position)
        ELSE LET join(right) ==
                     IF ~right.ok THEN right
                     ELSE binary_loop(tokens, right.position, precedence,
                                      BinaryExpression(expr, type, right.node))
             IN  join(expression(tokens, position + 1, next_precedence(type)))

\* _statement: SET name = expression, or an expression statement.
statement(tokens, position) ==
    IF tokens[position + 1].type = "SET"
    THEN IF tokens[position + 2].type # "IDENT"
         THEN NotParsed(<<"Expected identifier after SET">>)
         ELSE IF tokens[position + 3].type # "ASSIGN"
         THEN NotParsed(<<"Expected '=' after identifier">>)
         ELSE LET build(value) ==
                      IF ~value.ok THEN value
                      ELSE Parsed(SetStatement(ident_name(tokens[position + 2].value),
                                               value.node, 1), value.position)
              IN  build(expression(tokens, position + 3, 0))
    ELSE LET build(value) ==
                 IF ~value.ok THEN value
                 ELSE Parsed(ExpressionStatement(value.node, 1), value.position)
         IN  build(expression(tokens, position, 0))

\* Parser.parse: statements up to EOF.
RECURSIVE parse(_, _, _)
parse(tokens, position, statements) ==
    IF tokens[position + 1].type = "EOF" THEN Parsed(statements, position)
    ELSE IF tokens[position + 1].type \in {"NEWLINE", "COMMENT", "DEDENT"}
    THEN parse(tokens, position + 1, statements)
    ELSE LET next(stmt) ==
                 IF ~stmt.ok THEN stmt
                 ELSE parse(tokens, stmt.position, Append(statements, stmt.node))
         IN  next(statement(tokens, position))

\* The host is in parse(tokens): ctx holds the Parser.
InParse == [k |-> "parse"]
Parsing == status = "running" /\ stack = <<InParse>>

\* parse(tokens) returns the Program: ctx keeps it beside the Parser.
ParseReturn ==
    /\ Parsing /\ ~input.execute
    /\ LET return(r) ==
               /\ r.ok
               /\ ctx' = <<[tokens |-> ctx[1].tokens, position |-> r.position,
                            program |-> r.node]>>
       IN  return(parse(ctx[1].tokens, 0, <<>>))
    /\ stack' = <<>>
    /\ status' = "done"
    /\ UNCHANGED <<sig, cmlog, input>>

ParseRaise ==
    /\ Parsing
    /\ LET raise(r) ==
               /\ ~r.ok
               /\ sig' = ErrorSig(ParseErrorV(r.message))
       IN  raise(parse(ctx[1].tokens, 0, <<>>))
    /\ stack' = <<>>
    /\ status' = "failed"
    /\ UNCHANGED <<ctx, cmlog, input>>

\* Interpreter().execute(parse(tokens)): a new interpreter starts on the Program.
ExecuteParsed ==
    /\ Parsing /\ input.execute
    /\ LET start(r) ==
               /\ r.ok
               /\ stack' = <<Block(1, r.node)>>
       IN  start(parse(ctx[1].tokens, 0, <<>>))
    /\ ctx' = <<ExecutionContext(Update(StdBuiltins, PluginBuiltins))>>
    /\ UNCHANGED <<sig, status, cmlog, input>>

(***************************************************************************)
(* Token streams: chains of up to MaxOps binary operators between the      *)
(* operands 1, a, 2, b, 3, ...; two operators with one side in             *)
(* parentheses; streams no expression matches; and SET x = 2 op 3 op 2     *)
(* with arithmetic operators, executed after the parse.                    *)
(***************************************************************************)
MaxOps == 3

BinaryTypes == DOMAIN BINARY_PRECEDENCE
Number(n) == Token("NUMBER", <<CHOOSE ch \in DOMAIN DecimalDigit : DecimalDigit[ch] = n>>)
Ident(name) == Token("IDENT", <<name>>)
Op(type) == Token(type, <<>>)
Operand(k) == IF k % 2 = 1 THEN Number((k + 1) \div 2) ELSE Ident(IF k % 4 = 2 THEN "a" ELSE "b")

\* operand 1, operator 1, operand 2, ... , operand n + 1
Chain(ops) ==
    [i \in 1..(2 * Len(ops) + 1) |->
        IF i % 2 = 1 THEN Operand((i + 1) \div 2) ELSE Op(ops[i \div 2])]

ParserInputs ==
    {[fam |-> "chain", ops |-> ops, execute |-> FALSE,
      tokens |-> Chain(ops) \o <<Op("EOF")>>] :
        ops \in UNION {[1..n -> BinaryTypes] : n \in 1..MaxOps}}
    \cup
    {[fam |-> side, ops |-> ops, execute |-> FALSE,
      tokens |-> IF side = "left"
                 THEN <<Op("LPAREN"), Operand(1), Op(ops[1]), Operand(2), Op("RPAREN"),
                        Op(ops[2]), Operand(3), Op("EOF")>>
                 ELSE <<Operand(1), Op(ops[1]), Op("LPAREN"), Operand(2), Op(ops[2]),
                        Operand(3), Op("RPAREN"), Op("EOF")>>] :
        side \in {"left", "right"}, ops \in [1..2 -> BinaryTypes]}
    \cup
    {[fam |-> "malformed", ops |-> <<>>, execute |-> e, tokens |-> tokens] :
        e \in BOOLEAN,
        tokens \in {<<Operand(1), Op("PLUS"), Op("EOF")>>,
                    <<Op("LPAREN"), Operand(1), Op("PLUS"), Operand(2), Op("EOF")>>,
                    <<Operand(1), Op("RPAREN"), Op("EOF")>>,
                    <<Op("SET"), Operand(1), Op("EOF")>>}}
    \cup
    {[fam |-> "arithmetic", ops |-> ops, execute |-> TRUE,
      tokens |-> <<Op("SET"), Ident("x"), Op("ASSIGN"), Number(2), Op(ops[1]), middle,
                   Op(ops[2]), Number(2), Op("EOF")>>] :
        ops \in [1..2 -> {"PLUS", "MINUS", "STAR", "POWER"}],
        middle \in {Number(3), Ident("a")}}

InitParser ==
    /\ input \in ParserInputs
    /\ ctx = <<Parser(input.tokens)>>
    /\ stack = <<InParse>>
    /\ sig = NoSig
    /\ status = "running"
    /\ cmlog = <<>>

NextParser ==
    \/ ParseReturn \/ ParseRaise \/ ExecuteParsed
    \/ ExecSet \/ BlockEnd \/ BlockUnwind \/ ExecuteReturn \/ ExecuteRaise

SpecParser == InitParser /\ [][NextParser]_vars

\* The classes of binary operators, loosest first.
Tier(type) ==
    CASE type = "OR" -> 1
      [] type = "AND" -> 2
      [] type \in {"EQ", "NEQ"} -> 3
      [] type \in {"LT", "LTE", "GT", "GTE", "IN"} -> 4
      [] type \in {"PLUS", "MINUS"} -> 5
      [] type \in {"STAR", "SLASH", "DBLSLASH", "PERCENT"} -> 6
      [] type = "POWER" -> 7

\* The operands and operators of a tree, left to right.
RECURSIVE Flatten(_)
Flatten(node) ==
    IF node.e = "bin" THEN Flatten(node.left) \o <<node.operator>> \o Flatten(node.right)
    ELSE <<node>>

\* Every operator's left operand is an operand, a tighter operator, or one
\* of the same class unless the operator is **; its right operand is an
\* operand, a tighter operator, or ** under **.
RECURSIVE Grouped(_)
Grouped(node) ==
    node.e = "bin" =>
        /\ Grouped(node.left) /\ Grouped(node.right)
        /\ node.left.e = "bin" =>
               \/ Tier(node.left.operator) > Tier(node.operator)
               \/ Tier(node.left.operator) = Tier(node.operator) /\ node.operator # "POWER"
        /\ node.right.e = "bin" =>
               \/ Tier(node.right.operator) > Tier(node.operator)
               \/ Tier(node.right.operator) = Tier(node.operator) /\ node.operator = "POWER"

OperandNode(k) ==
    IF k % 2 = 1 THEN Lit(IntV((k + 1) \div 2)) ELSE Identifier(IF k % 4 = 2 THEN "a" ELSE "b")
ChainItems(ops) ==
    [i \in 1..(2 * Len(ops) + 1) |->
        IF i % 2 = 1 THEN OperandNode((i + 1) \div 2) ELSE ops[i \div 2]]

ParsedExpression == ctx[1].program[1].value

\* C15: binary operators group by OR < AND < equality < relational <
\* additive < multiplicative < power, equal classes left to right and **
\* right to left; parentheses group as written; a + b * c is a + (b * c),
\* a - b - c is (a - b) - c, a ** b ** c is a ** (b ** c), and
\* 2 ** 3 ** 2 evaluates to 512.
C15_PrecedenceGrouping ==
    /\ (input.fam = "chain" /\ Ended) =>
           /\ status = "done"
           /\ Flatten(ParsedExpression) = ChainItems(input.ops)
           /\ Grouped(ParsedExpression)
    /\ (input.fam = "left" /\ Ended) =>
           /\ status = "done"
           /\ ParsedExpression =
                  BinaryExpression(BinaryExpression(OperandNode(1), input.ops[1], OperandNode(2)),
                                   input.ops[2], OperandNode(3))
    /\ (input.fam = "right" /\ Ended) =>
           /\ status = "done"
           /\ ParsedExpression =
                  BinaryExpression(OperandNode(1), input.ops[1],
                                   BinaryExpression(OperandNode(2), input.ops[2], OperandNode(3)))
    /\ (input.fam = "arithmetic" /\ Ended /\ input.tokens[6].type = "NUMBER") =>
           /\ status = "done"
           /\ input.ops = <<"POWER", "POWER">> => ctx[1].frames[1]["x"] = IntV(512)
           /\ input.ops = <<"PLUS", "STAR">> => ctx[1].frames[1]["x"] = IntV(8)
           /\ input.ops = <<"MINUS", "MINUS">> => ctx[1].frames[1]["x"] = IntV(-3)
           /\ input.ops = <<"STAR", "POWER">> => ctx[1].frames[1]["x"] = IntV(18)
           /\ input.ops = <<"POWER", "STAR">> => ctx[1].frames[1]["x"] = IntV(16)

C15_Witness ==
    /\ status = "done" /\ input.fam = "arithmetic"
    /\ input.ops = <<"POWER", "POWER">> /\ input.tokens[6].type = "NUMBER"
    /\ ctx[1].frames[1]["x"] = IntV(512)

\* a + b * c, a - b - c and a ** b ** c as chains.
GroupingWitness ==
    /\ status = "done" /\ input.fam = "chain"
    /\ input.ops = <<"MINUS", "MINUS", "POWER">>
    /\ ParsedExpression =
           BinaryExpression(
               BinaryExpression(OperandNode(1), "MINUS", OperandNode(2)), "MINUS",
               BinaryExpression(OperandNode(3), "POWER", OperandNode(4)))

(***************************************************************************)
(* execute called twice on one Interpreter: a first program of "first"     *)
(* entities (a note, a target, a task with a port scan, a standalone port  *)
(* scan, all on line 1), possibly failing, then a second program of        *)
(* "second" entities on line 2.                                            *)
(***************************************************************************)
MaxStatements == 2

PassWord(call) == IF call = 1 THEN "first" ELSE "second"

PassStatements(call) ==
    {Note(PassWord(call)),
     TargetStatement(Str(PassWord(call)), call),
     TaskStatement(<<PassWord(call)>>, <<DomainStatement("portscan", call)>>, call),
     DomainStatement("portscan", call),
     RaiseOf("RuntimeError")}

PassPrograms(call) == UNION {[1..n -> PassStatements(call)] : n \in 1..MaxStatements}

AgainInputs ==
    {[fam |-> "again", files |-> NoFiles, call |-> 1, program |-> first, first |-> first,
      next |-> second] :
        first \in PassPrograms(1), second \in PassPrograms(2)}

InitAgain == InitWith(AgainInputs)

\* Interpreter.execute: the ExecutionResult built from the context.
execution_result(c) ==
    [targets |-> c.targets, scope |-> c.scope, tasks |-> c.tasks,
     standalone_actions |-> c.standalone_actions, notes |-> c.notes]

\* The host calls execute(next) on the same Interpreter after the first
\* call has returned or raised.
ExecuteAgain ==
    /\ Ended /\ input.call = 1
    /\ input' = [input EXCEPT !.call = 2, !.program = input.next]
    /\ stack' = <<Block(1, input.next)>>
    /\ sig' = NoSig
    /\ status' = "running"
    /\ UNCHANGED <<ctx, cmlog>>

NextAgain ==
    \/ ExecNote \/ ExecTarget \/ ExecTask \/ TaskExit \/ ExecPortScan \/ ExecExpression
    \/ BlockEnd \/ BlockUnwind \/ ExecuteReturn \/ ExecuteRaise \/ ExecuteAgain

SpecAgain == InitAgain /\ [][NextAgain]_vars

\* Every entity of a result is one the call's own program creates.
OwnEntities(r, call) ==
    /\ \A i \in DOMAIN r.notes : r.notes[i] = <<PassWord(call)>>
    /\ \A i \in DOMAIN r.targets : r.targets[i] = StrV(<<PassWord(call)>>)
    /\ \A i \in DOMAIN r.tasks :
           /\ r.tasks[i].line = call
           /\ \A j \in DOMAIN r.tasks[i].steps : r.tasks[i].steps[j].line = call
    /\ \A i \in DOMAIN r.standalone_actions : r.standalone_actions[i].line = call
    /\ r.scope = <<>>

\* C16: the ExecutionResult of execute(program) holds only the targets,
\* scope entries, tasks, actions and notes created during that call: when
\* execute is called again on the same Interpreter, no entity of the
\* earlier call is in the later result.
C16_ResultOfOnePass ==
    (input.fam = "again" /\ status = "done") =>
        OwnEntities(execution_result(ctx[1]), input.call)

\* The result of the first call on an Interpreter holds its own entities only.
FirstResultOfOnePass ==
    (input.fam = "again" /\ status = "done" /\ input.call = 1) =>
        OwnEntities(execution_result(ctx[1]), 1)

\* What the second call returns: the first call's entities, then its own.
SecondResultAccumulates ==
    (input.fam = "again" /\ status = "done" /\ input.call = 2
        /\ input.first = <<Note("first")>> /\ input.program = <<Note("second")>>) =>
        execution_result(ctx[1]).notes = << <<"first">>, <<"second">> >>

(***************************************************************************)
(* An ASYNC function called without AWAIT (SpecAsync, SET p = f(v) with    *)
(* p never awaited).                                                       *)
(***************************************************************************)
NeverAwaited == input.fam = "async" /\ input.how = "never"

MustBeAwaited ==
    sig.k = "error" /\ sig.exc = RuntimeErrorV(<<"Function is asynchronous and must be awaited">>)

\* C17 as stated: calling an ASYNC function with a call expression whose
\* result is not passed to AWAIT is an error.
C17_UnawaitedCallIsError == (NeverAwaited /\ Ended) => status = "failed"

\* C17: calling an ASYNC function with a call expression whose result is
\* not passed to AWAIT is not an error: the call yields the deferred call,
\* no statement of the body runs, and the program goes on; no call
\* expression and no AWAIT raises "asynchronous and must be awaited".
C17_UnawaitedCallIsDeferred ==
    /\ ~MustBeAwaited
    /\ (NeverAwaited /\ Ended) =>
           /\ status = "done"
           /\ HoldsCall(Globals["p"])
           /\ ctx[1].notes = << <<"called">> >>

C17_Witness ==
    /\ NeverAwaited /\ status = "done"
    /\ HoldsCall(Globals["p"])
    /\ ctx[1].notes = << <<"called">> >>

(***************************************************************************)
(* CLASS definitions.  The class body runs in a new frame, the class       *)
(* namespace; the type made of the bases and the namespace is then bound.  *)
(***************************************************************************)
ClassDefinition(name, bases, body, line) ==
    [s |-> "class", name |-> name, bases |-> bases, body |-> body, line |-> line]

\* type(name, bases, attrs); a function of the namespace becomes a method.
ClassV(name, bases, namespace) ==
    [t |-> "class", name |-> name,
     bases |-> IF bases = <<>> THEN <<[t |-> "type", cls |-> "object"]>> ELSE bases,
     attrs |-> [key \in DOMAIN namespace |->
                  IF namespace[key].t = "fn"
                  THEN [t |-> "method", function |-> namespace[key]]
                  ELSE namespace[key]]]

\* context.variables[name] = cls; context.frames[0][name] = cls
bind_class(c, name, cls) == [c EXCEPT !.frames[1] = Put(@, name, cls)]

ExecClassDefinition ==
    /\ AtStatement("class")
    /\ LET enter(bases) ==
               IF ~bases.ok THEN Throw(bases.v)
               ELSE Step(Cur, push_frame(ctx[Cur], EmptyMap),
                         Advanced \o <<[k |-> "class", it |-> Cur, name |-> Stmt.name,
                                        bases |-> bases.v],
                                       Block(Cur, Stmt.body)>>,
                         NoSig)
       IN  enter(evaluate_all(ctx[Cur], Stmt.bases))

\* The body has ended or raised: the namespace is popped and, when the body
\* has ended, the class is bound.
ClassExit ==
    /\ AtExecutor("class")
    /\ LET exit(namespace, popped) ==
               IF sig.k = "none"
               THEN Step(Cur, bind_class(popped, Top.name, ClassV(Top.name, Top.bases, namespace)),
                         Rest, NoSig)
               ELSE Step(Cur, popped, Rest, sig)
       IN  exit(ctx[Cur].frames[Len(ctx[Cur].frames)], pop_frame(ctx[Cur]))

(***************************************************************************)
(* Programs with CLASS K at top level, in the body of a function f that    *)
(* is called, or in a function g defined and called in f; the class body   *)
(* assigns an attribute, defines a method, does both or fails; K is or is  *)
(* not a global variable beforehand.                                       *)
(***************************************************************************)
ClassPlaces == {"top", "function", "nested"}
ClassBodies == {"attribute", "method", "both", "raise"}
ClassBases == {"none", "E1", "unbound"}

ClassProgram(place, body, bases, preset) ==
    LET attribute == AssignmentStatement("x", Num(1), 2)
        method == FunctionDefinition("m", <<>>, <<ReturnStatement(Num(2), 3)>>, FALSE, 3)
        K == ClassDefinition("K",
                 CASE bases = "none" -> <<>>
                   [] bases = "E1" -> <<Identifier("E1")>>
                   [] OTHER -> <<Identifier("unbound")>>,
                 CASE body = "attribute" -> <<attribute>>
                   [] body = "method" -> <<method>>
                   [] body = "both" -> <<attribute, method>>
                   [] OTHER -> <<attribute, RaiseOf("RuntimeError")>>,
                 1)
        call(name) == ExpressionStatement(CallExpression(Identifier(name), <<>>, <<>>), 5)
        g == FunctionDefinition("g", <<>>, <<K, Note("in g")>>, FALSE, 0)
    IN  (IF preset THEN <<SetStatement("K", Num(7), 0)>> ELSE <<>>)
        \o CASE place = "top" -> <<K>>
             [] place = "function" ->
                  <<FunctionDefinition("f", <<>>, <<K, Note("in f")>>, FALSE, 0), call("f")>>
             [] OTHER ->
                  <<FunctionDefinition("f", <<>>, <<g, call("g"), Note("in f")>>, FALSE, 0),
                    call("f")>>
        \o <<Note("end")>>

ClassInputs ==
    {[fam |-> "class", files |-> NoFiles, place |-> place, body |-> body, bases |-> bases,
      preset |-> preset, program |-> ClassProgram(place, body, bases, preset)] :
        place \in ClassPlaces, body \in ClassBodies, bases \in ClassBases, preset \in BOOLEAN}

InitClass == InitWith(ClassInputs)

NextClass ==
    \/ ExecClassDefinition \/ ClassExit
    \/ ExecFunctionDefinition \/ ExecAssignment \/ ExecSet \/ ExecExpression \/ ExecNote
    \/ CallReturn \/ CallUnwind
    \/ BlockEnd \/ BlockUnwind \/ ExecuteReturn \/ ExecuteRaise

SpecClass == InitClass /\ [][NextClass]_vars

\* The class body has ended and the class is about to be bound; the frame
\* that was top-most when the CLASS statement started lies under the namespace.
ClassEnds == AtExecutor("class") /\ sig.k = "none"
EnclosingFrame == Len(ctx[Cur].frames) - 1

\* C18: a CLASS definition binds the type under the class name in the
\* frame that is top-most when the CLASS statement starts: a CLASS in a
\* function body is bound in that call's frame and not in the global frame.
C18_ClassBoundInEnclosingScope ==
    [][ClassEnds =>
          /\ Top.name \in DOMAIN ctx'[Cur].frames[EnclosingFrame]
          /\ ctx'[Cur].frames[EnclosingFrame][Top.name].t = "class"
          /\ EnclosingFrame > 1 => ctx'[Cur].frames[1] = ctx[Cur].frames[1]
      ]_vars

\* A CLASS at top level is bound in the global frame, the enclosing one.
ClassAtTopLevel ==
    (input.fam = "class" /\ input.place = "top" /\ status = "done") =>
        "K" \in DOMAIN Globals /\ Globals["K"].t = "class"

\* Wherever the CLASS statement is, the type is bound in the global frame
\* and no other frame changes.
ClassBoundGlobally ==
    [][ClassEnds =>
          /\ ctx'[Cur].frames[1] =
                 Put(ctx[Cur].frames[1], Top.name,
                     ClassV(Top.name, Top.bases, ctx[Cur].frames[Len(ctx[Cur].frames)]))
          /\ \A i \in 2..EnclosingFrame : ctx'[Cur].frames[i] = ctx[Cur].frames[i]
      ]_vars

(***************************************************************************)
(* Interpolation and scopes: a domain statement with the text "{name}"     *)
(* where name is a global, a parameter, a local variable of the function   *)
(* being executed, a variable of the closure, or a parameter that hides a  *)
(* global; and a call that fails to bind its parameter.                    *)
(***************************************************************************)
Bindings == {"global", "reassigned", "global_in_function", "parameter", "local", "closure",
             "shadow", "missing"}
BoundValues == {"string", "number"}

ScopeProgram(kind, binding, value) ==
    LET v == IF value = "string" THEN Str("v") ELSE Num(7)
        use == CASE kind = "note" -> NoteStatement(Lit(StrV(PieceText("name"))), 3)
                 [] kind = "run" -> RunStatement(Lit(StrV(PieceText("name"))), 3)
                 [] kind = "http" -> HttpRequestStatement("GET", Lit(StrV(PieceText("name"))), 3)
                 [] OTHER -> OutputStatement(Lit(StrV(PieceText("name"))), 3)
        call(name, args) == ExpressionStatement(CallExpression(Identifier(name), args, <<>>), 5)
        f(parameters, body) == FunctionDefinition("f", parameters, body, FALSE, 1)
        name == <<Parameter("name", PyNone)>>
    IN  CASE binding = "global" -> <<SetStatement("name", v, 1), use>>
          [] binding = "reassigned" ->
               <<SetStatement("name", Str("old"), 1), AssignmentStatement("name", v, 2), use>>
          [] binding = "global_in_function" ->
               <<SetStatement("name", v, 1), f(<<>>, <<use>>), call("f", <<>>)>>
          [] binding = "parameter" -> <<f(name, <<use>>), call("f", <<v>>)>>
          [] binding = "local" ->
               <<f(<<>>, <<AssignmentStatement("name", v, 2), use>>), call("f", <<>>)>>
          [] binding = "closure" ->
               <<f(<<>>, <<AssignmentStatement("name", v, 2),
                           FunctionDefinition("g", <<>>, <<use>>, FALSE, 2),
                           call("g", <<>>)>>),
                 call("f", <<>>)>>
          [] binding = "shadow" ->
               <<SetStatement("name", Str("old"), 1), f(name, <<use>>), call("f", <<v>>)>>
          [] OTHER -> <<f(name, <<use>>), call("f", <<>>)>>

ScopeInputs ==
    {[fam |-> "scope", files |-> NoFiles, kind |-> kind, binding |-> binding, value |-> value,
      program |-> ScopeProgram(kind, binding, value)] :
        kind \in Interpolating, binding \in Bindings, value \in BoundValues}

InitScope == InitWith(ScopeInputs)

NextScope ==
    \/ ExecSet \/ ExecAssignment \/ ExecFunctionDefinition \/ ExecExpression
    \/ ExecNote \/ ExecRun \/ ExecHttp \/ ExecOutput
    \/ CallReturn \/ BlockEnd \/ BlockUnwind \/ ExecuteReturn \/ ExecuteRaise

SpecScope == InitScope /\ [][NextScope]_vars

\* The text of the value the name has where the statement is.
VisibleText == IF input.value = "string" THEN <<"v">> ELSE <<"7">>

\* C19: the values substituted into an interpolated string are those of
\* the scope current at the domain statement: a placeholder naming a
\* variable visible there, a parameter or local variable of the function
\* being executed included, is replaced by the variable's current value.
C19_InterpolationOfCurrentScope ==
    (input.fam = "scope" /\ input.binding # "missing" /\ Ended) =>
        /\ status = "done"
        /\ Explode(RecordedText) = Explode(VisibleText)

\* The same for names bound in the global frame.
InterpolationOfGlobals ==
    input.binding \in {"global", "reassigned", "global_in_function"}
        => C19_InterpolationOfCurrentScope

\* A name bound only in a frame of the call is left as a placeholder, and
\* one that hides a global is replaced by the global's value.
InterpolationOfCallFrames ==
    (input.fam = "scope" /\ Ended) =>
        /\ input.binding \in {"parameter", "local", "closure"} =>
               status = "done" /\ Explode(RecordedText) = Explode(PieceText("name"))
        /\ input.binding = "shadow" => status = "done" /\ RecordedText = <<"old">>

(***************************************************************************)
(* Imports in a cycle.  The program imports m; the file of m imports m     *)
(* itself ("self"), or imports n whose file imports m ("mutual"), or       *)
(* imports n whose file imports nothing ("chain"), or imports nothing      *)
(* ("leaf").  The imports are IMPORT or FROM ... IMPORT x statements,      *)
(* with or without statements before them.                                 *)
(***************************************************************************)
Cycles == {"self", "mutual", "chain", "leaf"}
ImportForms == {"import", "from"}

ImportOf(form, name) ==
    IF form = "import" THEN ImportStatement(<<ImportItem(<<name>>, "")>>, 2)
    ELSE FromImportStatement(<<name>>, <<FromImportItem("x", "")>>, 2)

CycleFiles(cycle, form, before) ==
    LET head == <<SetStatement("x", Num(1), 1)>> \o (IF before THEN <<Note("loading")>> ELSE <<>>)
        leaf == head \o (IF cycle = "leaf" /\ form = "from" THEN <<RaiseOf("RuntimeError")>>
                         ELSE <<>>)
    IN  CASE cycle = "self" -> [name \in {"m"} |-> head \o <<ImportOf(form, "m")>>]
          [] cycle = "mutual" ->
               [name \in {"m", "n"} |->
                   head \o <<ImportOf(form, IF name = "m" THEN "n" ELSE "m")>>]
          [] cycle = "chain" ->
               [name \in {"m", "n"} |->
                   IF name = "m" THEN head \o <<ImportOf(form, "n")>> ELSE head]
          [] OTHER -> [name \in {"m"} |-> leaf]

CycleInputs ==
    {[fam |-> "cycle", cycle |-> cycle, form |-> form, outer |-> outer, before |-> before,
      files |-> CycleFiles(cycle, form, before),
      program |-> <<Note("start"), ImportOf(outer, "m"), Note("imported")>>] :
        cycle \in Cycles, form \in ImportForms, outer \in ImportForms, before \in BOOLEAN}

InitCycle == InitWith(CycleInputs)

NextCycle ==
    \/ ExecSet \/ ExecNote \/ ExecExpression
    \/ ExecImport \/ ExecFromImport \/ ImportStep \/ ImportUnwind \/ LoadReturn \/ LoadUnwind
    \/ BlockEnd \/ BlockUnwind \/ ExecuteReturn \/ ExecuteRaise

SpecCycle == InitCycle /\ [][NextCycle]_vars

Cyclic == input.fam = "cycle" /\ input.cycle \in {"self", "mutual"}

\* The files being loaded, outermost first.
Loading == SelectSeq(stack, LAMBDA entry : entry.k = "load")

\* C20: import resolution has no cycle guard: loading a user module whose
\* top-level code imports itself, or one of two user modules that import
\* each other, starts at every level a new child interpreter with an empty
\* module cache that loads the same file again: the nesting of loads only
\* grows, as deep as interpreters are allowed, and the outer IMPORT never
\* completes.
C20_ImportCycleUnguarded ==
    Cyclic =>
        /\ ~Ended
        /\ DOMAIN Globals = {}
        /\ ctx[1].notes \in {<<>>, << <<"start">> >>}
        /\ Len(Loading) = Len(ctx) - 1
        /\ \A i \in DOMAIN Loading :
               /\ Loading[i].it = i + 1 /\ Loading[i].owner = i
               /\ Loading[i].dotted =
                      (IF input.cycle = "mutual" /\ i % 2 = 0 THEN "n" ELSE "m")
        /\ \A i \in 2..Len(ctx) : DOMAIN ctx[i].modules = {}
        /\ ~ENABLED NextCycle => Len(ctx) = MaxInterp

C20_Witness ==
    /\ Cyclic /\ input.cycle = "mutual"
    /\ Len(ctx) = MaxInterp /\ Len(Loading) = MaxInterp - 1
    /\ AtExecutor("import") /\ Cur = MaxInterp
    /\ ctx[MaxInterp].modules = EmptyMap

\* Imports that are not in a cycle complete or raise.
AcyclicImportEnds ==
    (input.fam = "cycle" /\ ~Cyclic /\ Ended) =>
        IF input.cycle = "leaf" /\ input.form = "from" THEN status = "failed"
        ELSE status = "done" /\ ctx[1].notes = << <<"start">>, <<"imported">> >>

(***************************************************************************)
(* Programs about frames: one frame-pushing construct, left in one of the *)
(* ways a body can be left, inside a FOR loop at the top level or in the  *)
(* body of a function f that the program calls (guarded or not by a TRY). *)
(***************************************************************************)
FrameConstructs == {"call", "lambda", "comprehension", "with", "handler", "class"}
FrameExits == {"completion", "break", "continue", "return", "error"}
ExpressionExits == {"completion", "error"}

Leave(exit) ==
    CASE exit = "completion" -> AssignmentStatement("x", Num(1), 0)
      [] exit = "error" -> RaiseOf("RuntimeError")
      [] OTHER -> SignalStatement(exit)

LeaveExpression(exit) == IF exit = "completion" THEN Identifier("a") ELSE Identifier("unbound")

FrameConstruct(construct, exit) ==
    LET items == ListExpression(<<Num(1), Num(2)>>)
    IN  CASE construct = "call" ->
               <<ExpressionStatement(CallExpression(Identifier("g"), <<>>, <<>>), 4)>>
          [] construct = "lambda" ->
               <<AssignmentStatement("r", CallExpression(Identifier("l"), <<Num(1)>>, <<>>), 4)>>
          [] construct = "comprehension" ->
               <<AssignmentStatement("r", ListComprehension(LeaveExpression(exit), "a", items,
                                                            Lit(BoolV(TRUE))), 4)>>
          [] construct = "with" ->
               <<WithStatement(<<WithItem(Identifier("cm1"), "m")>>, <<Leave(exit)>>, 4)>>
          [] construct = "handler" ->
               <<TryStatement(<<RaiseOf("E1")>>,
                              <<ExceptHandler(Identifier("E1"), "e", <<Leave(exit)>>)>>,
                              <<>>, <<>>, 4)>>
          [] OTHER -> <<ClassDefinition("K", <<>>, <<Leave(exit)>>, 4)>>

FrameProgram(construct, exit, place, guarded) ==
    LET g == FunctionDefinition("g", <<>>, <<Leave(exit)>>, FALSE, 1)
        l == SetStatement("l", LambdaExpression(<<Parameter("a", PyNone)>>, LeaveExpression(exit)), 2)
        loop == ForStatement("v", ListExpression(<<Num(1), Num(2)>>),
                             FrameConstruct(construct, exit) \o <<Note("next")>>, 3)
        f == FunctionDefinition("f", <<>>, <<loop, Note("after")>>, FALSE, 5)
        call == <<ExpressionStatement(CallExpression(Identifier("f"), <<>>, <<>>), 6)>>
        body == IF place = "top" THEN <<loop>> ELSE <<f>> \o call
    IN  <<g, l>> \o (IF guarded THEN Wrap("try_untyped", body) ELSE body) \o <<Note("end")>>

FrameInputs ==
    {[fam |-> "frames", files |-> NoFiles, construct |-> construct, exit |-> exit,
      place |-> place, guarded |-> guarded,
      program |-> FrameProgram(construct, exit, place, guarded)] :
        construct \in FrameConstructs, exit \in FrameExits,
        place \in {"top", "function"}, guarded \in BOOLEAN}

InitFrames ==
    /\ InitWith(FrameInputs)
    /\ input.construct \in {"lambda", "comprehension"} => input.exit \in ExpressionExits

NextFrames ==
    \/ ExecFunctionDefinition \/ ExecSet \/ ExecAssignment \/ ExecExpression \/ ExecNote
    \/ ExecPass \/ ExecBreak \/ ExecContinue \/ ExecReturn \/ ExecRaise
    \/ ExecFor \/ ForNext \/ ForCatch
    \/ ExecWith \/ WithExit
    \/ ExecTry \/ TryBodyEnd \/ TryExcept \/ TryClauseExit
    \/ ExecClassDefinition \/ ClassExit
    \/ CallReturn \/ CallUnwind
    \/ BlockEnd \/ BlockUnwind \/ ExecuteReturn \/ ExecuteRaise

SpecFrames == InitFrames /\ [][NextFrames]_vars

\* The executors that hold a pushed frame of interpreter i: a function call,
\* a WITH block, an EXCEPT handler that is running, a CLASS body.
HoldsFrame(entry, i) ==
    /\ entry.it = i
    /\ \/ entry.k \in {"call", "with", "class"}
       \/ entry.k = "try" /\ entry.phase = "handler"

FramesHeld(i) == Cardinality({j \in DOMAIN stack : HoldsFrame(stack[j], i)})

\* The statement about to run assigns the result of an expression that
\* pushes a frame during its evaluation.
AtComprehension == AtStatement("assign") /\ Stmt.value.e = "comp"
AtLambdaCall ==
    /\ AtStatement("assign") /\ Stmt.value.e = "call"
    /\ Stmt.value.function.e = "id"
    /\ LET callee == resolve_identifier(ctx[Cur], Stmt.value.function.name)
       IN  callee.ok /\ callee.v.t = "lambda"

FramesAfterComprehension ==
    LET after(value) == list_comprehension(ctx[Cur], Stmt.value, value.v).c.frames
    IN  after(evaluate_expression(ctx[Cur], Stmt.value.iterable))

FramesAfterLambdaCall ==
    LET after(f, args) ==
            lambda_frames(ctx[Cur],
                          bind_parameters(f.parameters, f.defaults, f.closure, args.v, EmptyMap).v,
                          f.body).c.frames
    IN  after(resolve_identifier(ctx[Cur], Stmt.value.function.name).v,
              evaluate_all(ctx[Cur], Stmt.value.args))

\* C21: every frame of an interpreter above its global frame belongs to one
\* function call, WITH block, EXCEPT handler or CLASS body that is still
\* running, so each of them pushed one frame and each exit (completion,
\* BREAK, CONTINUE, RETURN, error) popped it; a lambda call and a list
\* comprehension leave the frames as they found them; the global frame is
\* never popped, and between top-level statements and at the end of the
\* execution the frame stack is the global frame alone.
C21_FramesPaired ==
    /\ \A i \in DOMAIN ctx : Len(ctx[i].frames) = 1 + FramesHeld(i)
    /\ AtComprehension => FramesAfterComprehension = ctx[Cur].frames
    /\ AtLambdaCall => FramesAfterLambdaCall = ctx[Cur].frames
    /\ (Ended \/ Len(stack) <= 1) => \A i \in DOMAIN ctx : Len(ctx[i].frames) = 1

\* A frame-pushing construct was left by a signal or an error inside a
\* function, and the execution then ended with the global frame alone.
C21_Witness ==
    /\ input.fam = "frames" /\ input.place = "function" /\ input.construct = "with"
    /\ input.exit = "return" /\ status = "done"
    /\ Len(ctx[1].frames) = 1 /\ Len(ctx[1].notes) = 1

(***************************************************************************)
(* Programs about module code: the importer records entities of its own   *)
(* (word "first", line 1) and imports a module m whose code records one   *)
(* entity (word "second", line 2), while m is loaded or in a function     *)
(* probe that the importer calls, at its top level or inside its own TASK. *)
(***************************************************************************)
EntityKinds == {"note", "target", "task", "portscan", "embed"}

Entity(kind, call) ==
    CASE kind = "note" -> Note(PassWord(call))
      [] kind = "target" -> TargetStatement(Str(PassWord(call)), call)
      [] kind = "task" ->
           TaskStatement(<<PassWord(call)>>, <<DomainStatement("portscan", call)>>, call)
      [] OTHER -> DomainStatement(kind, call)

ModuleFile(kind, when, fails) ==
    LET raise == IF fails THEN <<RaiseOf("RuntimeError")>> ELSE <<>>
        probe(body) == FunctionDefinition("probe", <<>>, body \o <<ReturnStatement(Num(1), 3)>>,
                                          FALSE, 3)
    IN  IF when = "load" THEN <<Entity(kind, 2), probe(<<>>)>> \o raise
        ELSE <<probe(<<Entity(kind, 2)>> \o raise)>>

ModuleProgram(form, place) ==
    LET import == IF form = "import" THEN ImportStatement(<<ImportItem(<<"m">>, "")>>, 4)
                  ELSE FromImportStatement(<<"m">>, <<FromImportItem("probe", "")>>, 4)
        probe == IF form = "import" THEN AttributeReference(Identifier("m"), "probe")
                 ELSE Identifier("probe")
        call == ExpressionStatement(CallExpression(probe, <<>>, <<>>), 5)
    IN  <<Entity("note", 1), Entity("target", 1), import>>
        \o (IF place = "in_task"
            THEN <<TaskStatement(<<PassWord(1)>>, <<Entity("portscan", 1), call>>, 1)>>
            ELSE <<call>>)
        \o <<Entity("portscan", 1)>>

ModuleInputs ==
    {[fam |-> "module", files |-> [n \in {"m"} |-> ModuleFile(kind, when, fails)],
      kind |-> kind, when |-> when, fails |-> fails, form |-> form, place |-> place,
      program |-> ModuleProgram(form, place)] :
        kind \in EntityKinds, when \in {"load", "call"}, fails \in BOOLEAN,
        form \in {"import", "from"}, place \in {"top", "in_task"}}

InitModule == InitWith(ModuleInputs)

NextModule ==
    \/ ExecNote \/ ExecTarget \/ ExecTask \/ TaskExit \/ ExecPortScan \/ ExecEmbed
    \/ ExecExpression \/ ExecFunctionDefinition \/ ExecReturn \/ CallReturn \/ CallUnwind
    \/ ExecImport \/ ExecFromImport \/ ImportStep \/ ImportUnwind \/ LoadReturn \/ LoadUnwind
    \/ BlockEnd \/ BlockUnwind \/ ExecuteReturn \/ ExecuteRaise

SpecModule == InitModule /\ [][NextModule]_vars

\* What the importer's program records by itself when it runs to its end:
\* one note, one target, a port scan in its TASK if it has one, and one
\* port scan outside every TASK.
ImporterResult(r) ==
    /\ Len(r.notes) = 1 /\ Len(r.targets) = 1 /\ Len(r.standalone_actions) = 1
    /\ Len(r.tasks) = IF input.place = "in_task" THEN 1 ELSE 0
    /\ \A i \in DOMAIN r.tasks : Len(r.tasks[i].steps) = 1

CacheFiles == [n \in {"m", "pkg.m", "b"} |-> <<SetStatement("a", Str(n), 1), Note(n)>>]

CachePaths == {<<"m">>, <<"pkg", "m">>, <<"b">>}

\* Imports whose binding name is the dotted path itself, and the others:
\* an AS alias, or a dotted path bound by its last component.
PlainImports ==
    {ImportStatement(<<ImportItem(<<n>>, "")>>, 2) : n \in {"m", "b"}}
    \cup {FromImportStatement(path, <<FromImportItem("a", "")>>, 2) : path \in CachePaths}
RenamingImports ==
    {ImportStatement(<<ImportItem(<<"m">>, "b")>>, 2),
     ImportStatement(<<ImportItem(<<"pkg", "m">>, "")>>, 2),
     ImportStatement(<<ImportItem(<<"pkg", "m">>, "p")>>, 2)}

CachePrograms ==
    UNION {[1..n -> PlainImports \cup RenamingImports] : n \in 1..MaxStatements}

CacheInputs ==
    {[fam |-> "cache", files |-> CacheFiles, program |-> program,
      plain |-> \A i \in DOMAIN program : program[i] \in PlainImports] :
        program \in CachePrograms}
    \cup
    {[fam |-> "cache_fails", files |-> CacheFiles, plain |-> TRUE,
      program |-> <<ImportStatement(<<ImportItem(<<"m">>, "")>>, 2), RaiseOf("RuntimeError")>>]}

InitCache == InitWith(CacheInputs)

NextCache ==
    \/ ExecSet \/ ExecNote \/ ExecExpression
    \/ ExecImport \/ ExecFromImport \/ ImportStep \/ LoadReturn
    \/ BlockEnd \/ BlockUnwind \/ ExecuteReturn \/ ExecuteRaise

SpecCache == InitCache /\ [][NextCache]_vars

\* The import statements of the root program that have finished.
ImportsDone ==
    IF Ended \/ stack = <<>> THEN Len(input.program)
    ELSE IF Len(stack) = 1 THEN stack[1].pc - 1 ELSE stack[1].pc - 2

ImportedPath(imp) ==
    IF imp.s = "import" THEN imp.items[1].module ELSE imp.module

\* What the imp bound: the module of an IMPORT, the attribute a of
\* the module of a FROM ... IMPORT a.
BoundBy(imp) ==
    IF imp.s = "from" THEN Globals["a"]
    ELSE Globals[IF imp.items[1].alias # "" THEN imp.items[1].alias
                 ELSE imp.items[1].module[Len(imp.items[1].module)]].attrs["a"]

\* The imports of the program that are the last one binding their name, so
\* that the name still holds what the import bound.
LastBinding(i) ==
    LET name(s) == IF s.s = "from" THEN "a"
                   ELSE IF s.s # "import" THEN ""
                   ELSE IF s.items[1].alias # "" THEN s.items[1].alias
                   ELSE s.items[1].module[Len(s.items[1].module)]
    IN  \A j \in (i + 1)..ImportsDone : name(input.program[j]) # name(input.program[i])

\* The files that have been executed, in order: each child interpreter
\* recorded the dotted path of its file.
Executions == [i \in 1..(Len(ctx) - 1) |-> ctx[i + 1].notes]

CacheKeyedByPath ==
    /\ \A K \in DOMAIN ctx[1].modules : ctx[1].modules[K].dotted = K
    /\ \A i \in 1..ImportsDone :
           (input.program[i].s \in {"import", "from"} /\ LastBinding(i)) =>
               BoundBy(input.program[i]) = StrV(<<Dotted(ImportedPath(input.program[i]))>>)
    /\ \A i, j \in DOMAIN Executions : Executions[i] = Executions[j] => i = j

\* C23: the module cache is keyed by dotted path: every entry under key K
\* is the module path K resolves to, every import of path P binds the
\* module resolved for P, and no file is executed twice.
C23_CacheKeyedByPath == input.fam \in {"cache", "cache_fails"} => CacheKeyedByPath

\* The same for programs whose imports bind the dotted path itself
\* (IMPORT m, IMPORT b, FROM ... IMPORT).
CacheOfPlainImports == input.plain => CacheKeyedByPath

\* IMPORT m AS b, then IMPORT b: the second import found module m in the
\* cache under the key b and bound it, and the file b was never executed.
AliasAnswersForPath ==
    /\ input.program = <<ImportStatement(<<ImportItem(<<"m">>, "b")>>, 2),
                         ImportStatement(<<ImportItem(<<"b">>, "")>>, 2)>>
    /\ status = "done"
    /\ Globals["b"].dotted = "m"
    /\ Len(ctx) = 2

(***************************************************************************)
(* Programs about the current TASK:                                       *)
(*   DEF g(): FOR v IN [1, 2]: TASK "t2": A3; <exit> / A4 ... RETURN 1    *)
(*   TASK "t1": A2; g() (guarded by TRY or not); A5                       *)
(*   A6                                                                    *)
(* where the A are PORTSCAN statements on lines 2..6 and <exit> leaves    *)
(* the body of t2 by completion, BREAK, CONTINUE, RETURN or an error.     *)
(***************************************************************************)
CurrentProgram(exit, guarded) ==
    LET A(i) == DomainStatement("portscan", i)
        t2 == TaskStatement(<<"t2">>, <<A(3), Leave(exit)>>, 0)
        g == FunctionDefinition("g", <<>>,
                 <<ForStatement("v", ListExpression(<<Num(1), Num(2)>>), <<t2, A(4)>>, 0),
                   ReturnStatement(Num(1), 0)>>, FALSE, 0)
        call == <<ExpressionStatement(CallExpression(Identifier("g"), <<>>, <<>>), 0)>>
    IN  <<g,
          TaskStatement(<<"t1">>,
                        <<A(2)>> \o (IF guarded THEN Wrap("try_untyped", call) ELSE call)
                        \o <<A(5)>>, 0),
          A(6)>>

CurrentInputs ==
    {[fam |-> "current", files |-> NoFiles, exit |-> exit, guarded |-> guarded,
      program |-> CurrentProgram(exit, guarded)] :
        exit \in FrameExits, guarded \in BOOLEAN}

InitCurrent == InitWith(CurrentInputs)

NextCurrent ==
    \/ ExecPortScan \/ ExecTask \/ TaskExit \/ ExecAssignment \/ ExecExpression
    \/ ExecTry \/ TryBodyEnd \/ TryExcept \/ TryClauseExit \/ ExecPass
    \/ ExecFor \/ ForNext \/ ForCatch \/ ExecBreak \/ ExecContinue
    \/ ExecFunctionDefinition \/ ExecReturn \/ CallReturn \/ CallUnwind
    \/ BlockEnd \/ BlockUnwind \/ ExecuteReturn \/ ExecuteRaise

SpecCurrent == InitCurrent /\ [][NextCurrent]_vars

\* The tasks of interpreter i whose bodies are executing, outermost first.
RECURSIVE TasksExecuting(_, _)
TasksExecuting(st, i) ==
    IF st = <<>> THEN <<>>
    ELSE LET below == TasksExecuting(SubSeq(st, 1, Len(st) - 1), i)
             entry == st[Len(st)]
         IN  IF entry.k = "task" /\ entry.it = i THEN Append(below, entry.task) ELSE below

\* The lines of the actions of a list.
Lines(actions) == [i \in DOMAIN actions |-> actions[i].line]

\* C24: the tasks on the collection stack are, in every state, the tasks
\* whose bodies are executing; a TASK whose body ended, by completion, an
\* error, BREAK, CONTINUE or RETURN, is no longer current and the enclosing
\* TASK (or none) is the target again; no TASK is current when execute()
\* has returned or raised.
C24_TaskCurrentWhileBody ==
    /\ \A i \in DOMAIN ctx : ctx[i].task_stack = TasksExecuting(stack, i)
    /\ Ended => \A i \in DOMAIN ctx : ctx[i].task_stack = <<>>
    /\ \A i \in DOMAIN ctx[1].standalone_actions : ctx[1].standalone_actions[i].line = 6
    /\ \A i \in DOMAIN ctx[1].tasks :
           ctx[1].tasks[i].name = <<"t2">> =>
               \A j \in DOMAIN ctx[1].tasks[i].steps : ctx[1].tasks[i].steps[j].line = 3
    /\ status = "done" =>
           /\ Lines(ctx[1].standalone_actions) = <<6>>
           /\ Lines(ctx[1].tasks[1].steps)[Len(ctx[1].tasks[1].steps)] = 5

\* The body of t2 was left by BREAK and the execution ended: the action
\* after the call went to t1 and the last one to no TASK.
C24_Witness ==
    /\ input.fam = "current" /\ input.exit = "break" /\ status = "done"
    /\ ctx[1].task_stack = <<>>
    /\ Len(ctx[1].tasks) = 2
    /\ Lines(ctx[1].tasks[1].steps) = <<2, 5>>

(***************************************************************************)
(* Programs about identifier lookup. A name N is bound, or not, in each   *)
(* of the places a lookup consults:                                        *)
(*   DEF f(): RETURN N         (or DEF f(N), called with an argument)      *)
(*   DEF h(): [N = "caller"]; RETURN f()                                   *)
(*   DEF h2(): [N = "outer"]; RETURN h()                                   *)
(*   TARGET "t"; [SET N = "global"]; [FROM N IMPORT a]; [PAYLOAD N = ...]  *)
(*   r = h2(); q = N                                                       *)
(* f is defined first, so its captured snapshot never holds N.            *)
(***************************************************************************)
PayloadStatement(name, value, line) ==
    [s |-> "payload", name |-> name, value |-> value, line |-> line]

\* PayloadStatement
ExecPayload ==
    /\ AtStatement("payload")
    /\ LET store(values) ==
               IF values.ok
               THEN Done([ctx[Cur] EXCEPT !.payloads = Put(@, Stmt.name, strings(values.v))])
               ELSE Throw(values.v)
       IN  store(coerce_iterable(ctx[Cur], Stmt.value))

LookupNames == {"m", "targets", "print"}
BindingPlaces == {"param", "caller", "outer", "global", "module", "payload"}

LookupFiles == [n \in LookupNames |-> <<SetStatement("a", Num(1), 1)>>]

LookupProgram(N, places) ==
    LET bind(place) ==
            IF place \in places THEN <<AssignmentStatement(N, Str(place), 2)>> ELSE <<>>
        call(name, args) == CallExpression(Identifier(name), args, <<>>)
        f == FunctionDefinition("f", IF "param" \in places THEN <<Parameter(N, PyNone)>> ELSE <<>>,
                                <<ReturnStatement(Identifier(N), 1)>>, FALSE, 1)
        h == FunctionDefinition("h", <<>>,
                 bind("caller")
                 \o <<ReturnStatement(call("f", IF "param" \in places THEN <<Str("param")>>
                                                ELSE <<>>), 2)>>, FALSE, 2)
        h2 == FunctionDefinition("h2", <<>>,
                  bind("outer") \o <<ReturnStatement(call("h", <<>>), 3)>>, FALSE, 3)
    IN  <<f, h, h2, TargetStatement(Str("t"), 4)>>
        \o (IF "global" \in places THEN <<SetStatement(N, Str("global"), 5)>> ELSE <<>>)
        \o (IF "module" \in places
            THEN <<FromImportStatement(<<N>>, <<FromImportItem("a", "")>>, 6)>> ELSE <<>>)
        \o (IF "payload" \in places
            THEN <<PayloadStatement(N, ListExpression(<<Str("payload")>>), 7)>> ELSE <<>>)
        \o <<AssignmentStatement("r", call("h2", <<>>), 8),
             AssignmentStatement("q", Identifier(N), 9)>>

LookupInputs ==
    {[fam |-> "lookup", files |-> LookupFiles, name |-> N, places |-> places,
      program |-> LookupProgram(N, places)] :
        N \in LookupNames, places \in SUBSET BindingPlaces}

InitLookup == InitWith(LookupInputs)

NextLookup ==
    \/ ExecFunctionDefinition \/ ExecTarget \/ ExecSet \/ ExecPayload \/ ExecAssignment
    \/ ExecFromImport \/ ImportStep \/ LoadReturn
    \/ ExecReturn \/ CallReturn \/ CallUnwind
    \/ BlockEnd \/ BlockUnwind \/ ExecuteReturn \/ ExecuteRaise

SpecLookup == InitLookup /\ [][NextLookup]_vars

\* The places a lookup of the name finds it, nearest first: the frames
\* from the top of the stack down to the global frame, then the module
\* aliases, the payload names, the targets list and the builtins.
LookupOrder == <<"param", "caller", "outer", "global", "module", "payload", "list", "builtin">>

Binds(place) ==
    \/ place \in input.places
    \/ place = "list" /\ input.name = "targets"
    \/ place = "builtin" /\ input.name = "print"

\* The first place of LookupOrder, from position i on, that binds the name.
FirstPlace(i) ==
    LET bound == {j \in i..Len(LookupOrder) : Binds(LookupOrder[j])}
    IN  IF bound = {} THEN "none"
        ELSE LookupOrder[CHOOSE j \in bound : \A k \in bound : j <= k]

\* The place a value read through the name came from.
PlaceOf(value) ==
    CASE value.t = "str" -> value.s[1]
      [] value.t = "module" -> "module"
      [] value.t = "list" -> IF value.elems = <<StrV(<<"t">>)>> THEN "list" ELSE "payload"
      [] OTHER -> "builtin"

Shape(tokens, node) == [tokens |-> tokens, node |-> node]
Atom(name) == Shape(<<Ident(name)>>, Identifier(name))
One == Shape(<<Number(1)>>, Lit(IntV(1)))
Binary(left, type, right) ==
    Shape(left.tokens \o <<Op(type)>> \o right.tokens,
          BinaryExpression(left.node, type, right.node))
Paren(inner) == Shape(<<Op("LPAREN")>> \o inner.tokens \o <<Op("RPAREN")>>, inner.node)
Bracket(inner) ==
    Shape(<<Op("LBRACKET")>> \o inner.tokens \o <<Op("RBRACKET")>>,
          ListExpression(<<inner.node>>))
\* if_true IF condition ELSE if_false
Choice(if_true, condition, if_false) ==
    Shape(if_true.tokens \o <<Op("IF")>> \o condition.tokens \o <<Op("ELSE")>> \o if_false.tokens,
          ConditionalExpression(condition.node, if_true.node, if_false.node))

AChoice == Choice(Atom("a"), Atom("b"), Atom("c"))

Elements == {Atom("x"), Binary(Atom("x"), "PLUS", One), Choice(Atom("x"), Atom("a"), Atom("b")),
             Paren(AChoice)}
Iterables == {Atom("i"), Binary(Atom("i"), "PLUS", Atom("i")), Paren(AChoice),
              Bracket(Atom("a"))}
\* Filters without an ELSE outside brackets, and conditional expressions.
PlainFilters == {Atom("c"), Binary(Atom("x"), "GT", One), Paren(AChoice), Bracket(AChoice),
                 Binary(Paren(AChoice), "AND", Atom("c"))}
ConditionalFilters == {AChoice, Choice(Atom("a"), Binary(Atom("x"), "GT", One), Paren(AChoice))}

ComprehensionTokens(E, I, C) ==
    <<Op("LBRACKET")>> \o E.tokens \o <<Op("FOR"), Ident("x"), Op("IN")>> \o I.tokens
    \o <<Op("IF")>> \o C.tokens \o <<Op("RBRACKET")>>

ComprehensionInputs ==
    {[fam |-> "comprehension", execute |-> FALSE, set |-> set,
      plain |-> C \in PlainFilters,
      expected |-> ListComprehension(E.node, "x", I.node, C.node),
      tokens |-> (IF set THEN <<Op("SET"), Ident("e"), Op("ASSIGN")>> ELSE <<>>)
                 \o ComprehensionTokens(E, I, C) \o <<Op("NEWLINE"), Op("EOF")>>] :
        E \in Elements, I \in Iterables, C \in PlainFilters \cup ConditionalFilters,
        set \in BOOLEAN}

InitComprehension ==
    /\ input \in ComprehensionInputs
    /\ ctx = <<Parser(input.tokens)>>
    /\ stack = <<InParse>>
    /\ sig = NoSig
    /\ status = "running"
    /\ cmlog = <<>>

NextComprehension == ParseReturn \/ ParseRaise

SpecComprehension == InitComprehension /\ [][NextComprehension]_vars

ParsedAsFilter ==
    Ended =>
        /\ status = "done"
        /\ ctx[1].program = <<IF input.set THEN SetStatement("e", input.expected, 1)
                              ELSE ExpressionStatement(input.expected, 1)>>

\* C26: every list comprehension [E FOR x IN I IF C] parses, with E as the
\* element, I as the iterable and C as the filter, whatever expression C
\* is, a conditional expression included.
C26_ComprehensionFilter == ParsedAsFilter

\* The same for filters that have no ELSE outside brackets.
ComprehensionWithPlainFilter == input.plain => ParsedAsFilter

\* [x FOR x IN i IF a IF b ELSE c] is refused: the lookahead at the first IF
\* finds the ELSE of the filter, the iterable is parsed as a conditional
\* expression and its ELSE is missing.
ConditionalFilterRefused ==
    /\ input.tokens = ComprehensionTokens(Atom("x"), Atom("i"), AChoice)
                      \o <<Op("NEWLINE"), Op("EOF")>>
    /\ status = "failed"
    /\ sig = ErrorSig(ParseErrorV(<<"Expected ELSE in conditional expression">>))

(***************************************************************************)
(* Texts that open a block comment: ## followed by up to MaxUnits units,  *)
(* each a space, a letter, a newline or another ## marker.                *)
(***************************************************************************)
MaxUnits == 4

Units == {" ", "a", "\n", "##"}
CommentBodies == UNION {[1..n -> Units] : n \in 0..MaxUnits}

RECURSIVE Characters(_)
Characters(units) ==
    IF units = <<>> THEN <<>>
    ELSE (IF Head(units) = "##" THEN <<"#", "#">> ELSE <<Head(units)>>) \o Characters(Tail(units))

\* The markers of the body with nothing but spaces before them on their line.
AtLineStart(body) ==
    {k \in DOMAIN body :
        /\ body[k] = "##"
        /\ \A j \in 1..(k - 1) : (\A n \in j..(k - 1) : body[n] # "\n") => body[j] = " "}

\* Those that are on a later line than the opening marker.
OnOwnLine(body) == {k \in AtLineStart(body) : \E j \in 1..(k - 1) : body[j] = "\n"}

BlockInputs ==
    {[fam |-> "block", body |-> body, text |-> <<"#", "#">> \o Characters(body)] :
        body \in CommentBodies}

InitBlock == InitLexer(BlockInputs)

NextBlock ==
    \/ ScanWhitespace \/ ScanNewline \/ ScanComment \/ ScanIdentifier \/ TokenizeReturn

SpecBlock == InitBlock /\ [][NextBlock]_vars

\* The text between the opening marker and the first marker of the set, or
\* the rest of the text when the set is empty.
TextBefore(markers) ==
    IF markers = {} THEN Characters(input.body)
    ELSE Characters(SubSeq(input.body, 1, (CHOOSE k \in markers : \A n \in markers : k <= n) - 1))

\* C27: a block comment ends at the first ## that has only spaces and tabs
\* before it on a line of its own, not at a ## on the line of the opening
\* marker or after other text, and is one COMMENT token whose value is the
\* text between the two markers.
C27_BlockCommentClosesAtLineStart ==
    (input.fam = "block" /\ Ended) =>
        /\ status = "done"
        /\ ctx[1].tokens[1] = Token("COMMENT", TextBefore(OnOwnLine(input.body)))

\* What the lexer does: the comment ends at the first ## with only spaces
\* and tabs between it and the start of its line or the opening marker.
BlockCommentClosesAfterBlanks ==
    (input.fam = "block" /\ Ended) =>
        /\ status = "done"
        /\ ctx[1].tokens[1] = Token("COMMENT", TextBefore(AtLineStart(input.body)))

\* The text is ## ##, a newline and ##: the comment is the space alone, and
\* the second marker of the first line closed it.
ClosedOnOpeningLine ==
    /\ input.fam = "block" /\ input.body = <<" ", "##", "\n", "##">>
    /\ status = "done"
    /\ ctx[1].tokens[1] = Token("COMMENT", <<" ">>)

(***************************************************************************)
(* Programs about the loop variable of FOR. The variable v is unbound,    *)
(* NONE or a string in the global frame; the loop runs at the top level   *)
(* or in a function f (defined first, so that it captures no v) where v   *)
(* is unbound, NONE or a string of its own; the loop ends because the     *)
(* iterable is exhausted or empty, by BREAK, RETURN, an error in the body *)
(* or an iterable that is no sequence.                                    *)
(***************************************************************************)
BindingKinds == {"unbound", "none", "value"}
LoopEndings == {"exhausted", "empty", "continue", "break", "return", "error", "non_iterable"}

RestoreProgram(lower, before, place, ending) ==
    LET bind(kind, word, set) ==
            CASE kind = "unbound" -> <<>>
              [] kind = "none" -> IF set THEN <<SetStatement("v", PyNone, 1)>>
                                  ELSE <<AssignmentStatement("v", PyNone, 1)>>
              [] OTHER -> IF set THEN <<SetStatement("v", Str(word), 1)>>
                          ELSE <<AssignmentStatement("v", Str(word), 1)>>
        items == CASE ending = "empty" -> ListExpression(<<>>)
                   [] ending = "non_iterable" -> Num(5)
                   [] OTHER -> ListExpression(<<Num(1), Num(2)>>)
        body == CASE ending = "continue" -> <<ContinueStatement(2), Note("skipped")>>
                  [] ending = "break" -> <<BreakStatement(2)>>
                  [] ending = "return" -> <<ReturnStatement(Num(0), 2)>>
                  [] ending = "error" -> <<RaiseOf("RuntimeError")>>
                  [] OTHER -> <<Note("body")>>
        loop == <<ForStatement("v", items, body, 2), Note("after")>>
        f == FunctionDefinition("f", <<>>, bind(before, "local", FALSE) \o loop, FALSE, 3)
    IN  IF place = "top" THEN bind(lower, "global", TRUE) \o loop
        ELSE <<f>> \o bind(lower, "global", TRUE)
             \o <<ExpressionStatement(CallExpression(Identifier("f"), <<>>, <<>>), 4), Note("end")>>

RestoreInputs ==
    {[fam |-> "restore", files |-> NoFiles, lower |-> lower, before |-> before,
      place |-> place, ending |-> ending,
      program |-> RestoreProgram(lower, before, place, ending)] :
        lower \in BindingKinds, before \in BindingKinds, place \in {"top", "function"},
        ending \in LoopEndings}

InitRestore ==
    /\ InitWith(RestoreInputs)
    /\ input.place = "top" => input.before = "unbound"

NextRestore ==
    \/ ExecFunctionDefinition \/ ExecSet \/ ExecAssignment \/ ExecExpression \/ ExecNote
    \/ ExecFor \/ ForNext \/ ForCatch \/ ExecBreak \/ ExecContinue \/ ExecReturn
    \/ CallReturn \/ CallUnwind
    \/ BlockEnd \/ BlockUnwind \/ ExecuteReturn \/ ExecuteRaise

SpecRestore == InitRestore /\ [][NextRestore]_vars

\* What v was when the loop started: the binding of the frame the loop runs
\* in, or else that of the global frame.
BoundBefore ==
    IF input.place = "function" /\ input.before # "unbound"
    THEN [kind |-> input.before, v |-> StrV(<<"local">>)]
    ELSE [kind |-> input.lower, v |-> StrV(<<"global">>)]

\* The frames after the restoration the claim describes, given the frames
\* at the moment the loop ends.
RestoredFrames(frames) ==
    LET holders == {i \in DOMAIN frames : "v" \in DOMAIN frames[i]}
        nearest == CHOOSE i \in holders : \A j \in holders : j <= i
    IN  IF BoundBefore.kind = "value"
        THEN [frames EXCEPT ![Len(frames)] = Put(@, "v", BoundBefore.v)]
        ELSE IF holders = {} THEN frames
        ELSE [frames EXCEPT ![nearest] = Del(@, "v")]

\* The FOR statement ends in this step.
ForEnds == AtExecutor("for") /\ Len(stack') < Len(stack)

\* C28: when a FOR statement ends, by exhaustion, BREAK, or an error of the
\* body or of a value that is not iterable, a loop variable that had a
\* value other than NONE before the loop is bound to it again in the
\* top-most frame; one that was unbound or NONE is deleted from the nearest
\* frame that binds it; nothing else changes in the frames.
C28_LoopVariableRestored ==
    [][ForEnds => ctx'[Cur].frames = RestoredFrames(ctx[Cur].frames)]_vars

\* v was NONE at the top level before FOR v IN [1, 2]; the loop has ended
\* and v is unbound.
C28_Witness ==
    /\ input.fam = "restore" /\ input.place = "top" /\ input.lower = "none"
    /\ input.ending = "exhausted" /\ status = "done"
    /\ "v" \notin DOMAIN Globals

\* The variable after the loop, in the states that follow it.
LoopVariableAfter ==
    (input.fam = "restore" /\ input.place = "top" /\ Ended) =>
        IF input.lower = "value" THEN Globals["v"] = StrV(<<"global">>)
        ELSE "v" \notin DOMAIN Globals

(***************************************************************************)
(* Programs about the frame of a WITH body and of an EXCEPT handler. The  *)
(* block runs at the top level or in a function f, where x is unbound or  *)
(* 1 before it; its alias is absent, m or x; its body is one or two of    *)
(* x = 7, x += 1, y = 7, SET x = 9, SET g = 9, and it completes or        *)
(* raises. NOTE "after" follows the block.                                *)
(***************************************************************************)
BlockWrites == {"assign_x", "aug_x", "assign_y", "set_x", "set_g"}
BlockBodies == UNION {[1..n -> BlockWrites] : n \in 1..2}

BlockWrite(w) ==
    CASE w = "assign_x" -> AssignmentStatement("x", Num(7), 2)
      [] w = "aug_x" -> AugmentedAssignmentStatement("x", "PLUSEQ", Num(1), 2)
      [] w = "assign_y" -> AssignmentStatement("y", Num(7), 2)
      [] w = "set_x" -> SetStatement("x", Num(9), 2)
      [] OTHER -> SetStatement("g", Num(9), 2)

LocalProgram(construct, place, before, alias, writes, exit) ==
    LET body == [i \in DOMAIN writes |-> BlockWrite(writes[i])]
                \o (IF exit = "raise" THEN <<RaiseOf("E2")>> ELSE <<>>)
        block == IF construct = "with"
                 THEN WithStatement(<<WithItem(Identifier("cm1"), alias)>>, body, 1)
                 ELSE TryStatement(<<RaiseOf("E1")>>,
                                   <<ExceptHandler(Identifier("E1"), alias, body)>>, <<>>, <<>>, 1)
        guarded == IF exit = "raise"
                   THEN TryStatement(<<block>>, <<ExceptHandler(PyNone, "", <<PassStatement(0)>>)>>,
                                     <<>>, <<>>, 1)
                   ELSE block
        bind(set) == CASE before = "unbound" -> <<>>
                       [] set -> <<SetStatement("x", Num(1), 0)>>
                       [] OTHER -> <<AssignmentStatement("x", Num(1), 0)>>
    IN  IF place = "top" THEN bind(TRUE) \o <<guarded, Note("after")>>
        ELSE <<FunctionDefinition("f", <<>>, bind(FALSE) \o <<guarded, Note("after")>>, FALSE, 3),
               ExpressionStatement(CallExpression(Identifier("f"), <<>>, <<>>), 4),
               Note("end")>>

\* x += 1 is tried where x is a number only.
LocalInputs ==
    {i \in [fam : {"local"}, files : {NoFiles}, construct : {"with", "except"},
            place : {"top", "function"}, before : {"unbound", "value"},
            alias : {"", "m", "x"}, writes : BlockBodies, exit : {"complete", "raise"},
            program : {<<>>}] :
        (\E k \in DOMAIN i.writes : i.writes[k] = "aug_x") =>
            /\ i.alias # "x"
            /\ \/ i.before = "value"
               \/ i.writes[1] \in {"assign_x", "set_x"}}

InitLocal ==
    /\ \E i \in LocalInputs :
          input = [i EXCEPT !.program = LocalProgram(i.construct, i.place, i.before, i.alias,
                                                     i.writes, i.exit)]
    /\ ctx = <<ExecutionContext(Update(StdBuiltins, PluginBuiltins))>>
    /\ stack = <<Block(1, input.program)>>
    /\ sig = NoSig /\ status = "running" /\ cmlog = <<>>

NextLocal ==
    \/ ExecFunctionDefinition \/ ExecSet \/ ExecAssignment \/ ExecAugmentedAssignment
    \/ ExecExpression \/ ExecRaise \/ ExecNote \/ ExecPass
    \/ ExecWith \/ WithExit \/ ExecTry \/ TryExcept \/ TryClauseExit
    \/ CallReturn \/ BlockEnd \/ BlockUnwind \/ ExecuteReturn

SpecLocal == InitLocal /\ [][NextLocal]_vars

\* NOTE "after" is the next statement: the block has ended.
AfterBlock == AtStatement("note") /\ Stmt = Note("after")

Wrote(w) == \E k \in DOMAIN input.writes : input.writes[k] = w

\* The binding of a name in the frame the block ran in, as it was before
\* the block, apart from what SET wrote to the global frame.
BindingAfterBlock(name) ==
    LET unbound == [found |-> FALSE, v |-> NoneV]
        bound(n) == [found |-> TRUE, v |-> IntV(n)]
        set == IF name = "x" THEN Wrote("set_x") ELSE name = "g" /\ Wrote("set_g")
        local == IF name = "x" /\ input.before = "value" THEN bound(1) ELSE unbound
    IN  IF input.place = "top" THEN (IF set THEN bound(9) ELSE local)
        ELSE IF local.found THEN local
        ELSE IF set THEN bound(9) ELSE unbound

\* C29: after a WITH body or an EXCEPT handler body, the names it assigned
\* with = or += and its alias are bound as they were before the block, or
\* unbound; what SET wrote there is in the global frame.
C29_BlockAssignmentsLocal ==
    (input.fam = "local" /\ AfterBlock) =>
        /\ \A name \in {"x", "y", "m", "g"} :
              lookup_variable(ctx[Cur].frames, name) = BindingAfterBlock(name)
        /\ Wrote("set_x") => Globals["x"] = IntV(9)
        /\ Wrote("set_g") => Globals["g"] = IntV(9)
        /\ {"y", "m"} \cap DOMAIN Globals = {}

\* In f, x = 1, then WITH cm1 AS m: x = 7 / SET g = 9 has ended: x is 1
\* again, m is unbound and g is 9 in the global frame.
C29_Witness ==
    /\ input.fam = "local" /\ AfterBlock
    /\ input.construct = "with" /\ input.place = "function" /\ input.before = "value"
    /\ input.alias = "m" /\ input.writes = <<"assign_x", "set_g">>
    /\ lookup_variable(ctx[Cur].frames, "x").v = IntV(1)
    /\ ~lookup_variable(ctx[Cur].frames, "m").found
    /\ Globals["g"] = IntV(9)

\* The same for an EXCEPT handler at the top level whose body raises after
\* x += 1 and y = 7.
BlockLocalInHandler ==
    /\ input.fam = "local" /\ AfterBlock
    /\ input.construct = "except" /\ input.place = "top" /\ input.exit = "raise"
    /\ input.writes = <<"aug_x", "assign_y">>
    /\ Globals["x"] = IntV(1) /\ "y" \notin DOMAIN Globals

(***************************************************************************)
(* Programs about SET inside a call.                                       *)
(*   [SET x = 1] / DEF f([x]): W(SET x = v); seen = x; SET seen = seen;   *)
(*   RETURN x / r = f([5]) / SET top = x                                   *)
(* x is a parameter of f, a name f captured, both or neither; W places    *)
(* the SET directly in the body or in an IF, WITH, FOR or EXCEPT block.   *)
(***************************************************************************)
NameKinds == {"parameter", "captured", "both", "free"}
SetPlaces == {"body", "if", "with", "for", "except"}
SetValues == {8, 9}

GlobalProgram(kind, place, v) ==
    LET set == SetStatement("x", Num(v), 2)
        placed ==
            CASE place = "if" -> IfStatement(Lit(BoolV(TRUE)), <<set>>, <<>>, <<>>, 2)
              [] place = "with" -> WithStatement(<<WithItem(Identifier("cm1"), "")>>, <<set>>, 2)
              [] place = "for" -> ForStatement("i", ListExpression(<<Num(0)>>), <<set>>, 2)
              [] place = "except" ->
                   TryStatement(<<RaiseOf("E1")>>, <<ExceptHandler(PyNone, "", <<set>>)>>,
                                <<>>, <<>>, 2)
              [] OTHER -> set
        parameters == IF kind \in {"parameter", "both"} THEN <<Parameter("x", PyNone)>> ELSE <<>>
        args == IF kind \in {"parameter", "both"} THEN <<Num(5)>> ELSE <<>>
        f == FunctionDefinition("f", parameters,
                                <<placed, AssignmentStatement("seen", Identifier("x"), 3),
                                  SetStatement("seen", Identifier("seen"), 3),
                                  ReturnStatement(Identifier("x"), 4)>>, FALSE, 1)
    IN  (IF kind \in {"captured", "both"} THEN <<SetStatement("x", Num(1), 0)>> ELSE <<>>)
        \o <<f, AssignmentStatement("r", CallExpression(Identifier("f"), args, <<>>), 5),
             SetStatement("top", Identifier("x"), 6)>>

GlobalInputs ==
    {[fam |-> "global", files |-> NoFiles, kind |-> kind, place |-> place, v |-> v,
      program |-> GlobalProgram(kind, place, v)] :
        kind \in NameKinds, place \in SetPlaces, v \in SetValues}

InitGlobal == InitWith(GlobalInputs)

NextGlobal ==
    \/ ExecFunctionDefinition \/ ExecSet \/ ExecAssignment \/ ExecReturn \/ ExecRaise
    \/ ExecIf \/ ExecWith \/ WithExit \/ ExecFor \/ ForNext \/ ExecTry \/ TryExcept
    \/ TryClauseExit \/ CallReturn \/ BlockEnd \/ BlockUnwind \/ ExecuteReturn

SpecGlobal == InitGlobal /\ [][NextGlobal]_vars

\* What x is in the frame of the call of f: the argument, or else the
\* value f captured.
OwnValue == IF input.kind \in {"parameter", "both"} THEN IntV(5) ELSE IntV(1)

\* f is being called.
InCall == \E i \in DOMAIN stack : stack[i].k = "call"

\* The SET of the body has executed.
SetDone == "x" \in DOMAIN Globals /\ Globals["x"] = IntV(input.v)

\* C30: SET x = v inside a call writes the global frame and leaves the
\* frame of the call as it is: when x is a parameter or a captured name,
\* the call's frame keeps its value and the reads of x later in the body
\* return it, while the read of x at the top level after the call returns v.
C30_SetWritesGlobalFrame ==
    input.fam = "global" =>
        /\ (InCall /\ input.kind # "free") =>
              /\ Len(ctx[1].frames) >= 2
              /\ ctx[1].frames[2]["x"] = OwnValue
        /\ (InCall /\ input.kind = "free") =>
              \A i \in 2..Len(ctx[1].frames) : "x" \notin DOMAIN ctx[1].frames[i]
        /\ Ended =>
              /\ status = "done"
              /\ Globals["x"] = IntV(input.v)
              /\ Globals["top"] = IntV(input.v)
              /\ input.kind # "free" => Globals["seen"] = OwnValue /\ Globals["r"] = OwnValue

\* f(x) was called with 5 and has executed SET x = 9 in a WITH block: x is
\* 9 in the global frame and 5 in the frame of the call.
C30_Witness ==
    /\ input.fam = "global" /\ input.kind = "both" /\ input.place = "with" /\ input.v = 9
    /\ InCall /\ SetDone
    /\ ctx[1].frames[2]["x"] = IntV(5)

\* The call has returned the captured 1 and the top level has read 9.
SetSeenAtTopLevel ==
    /\ input.fam = "global" /\ input.kind = "captured" /\ input.v = 9 /\ status = "done"
    /\ Globals["r"] = IntV(1) /\ Globals["top"] = IntV(9)

====
